---- MODULE Spec2Model ----
(***************************************************************************)
(* UART NIC (Prusa ESP NIC firmware): a model of main/uart_nic.c.          *)
(*                                                                         *)
(* The firmware bridges a WiFi radio and a serial link.  The model holds   *)
(*   - the serial link: the receive stream rx, the transmit log tx, the    *)
(*     resync token intron and the write lock uart_mtx;                    *)
(*   - the tasks: the read loop (output_rx_thread), the ingress drain      *)
(*     (uart_tx_thread), the egress drain (wifi_egress_thread), the event  *)
(*     loop (event_handler), the receive callback (wifi_receive_cb);       *)
(*   - the heap objects that carry packets and the two queues;             *)
(*   - the link-health state.                                              *)
(*                                                                         *)
(* Bytes are the integers 0..255.  A byte stream is kept run-length        *)
(* encoded (a sequence of runs [b, n]: n copies of byte b) so that a       *)
(* 2001-byte payload is a small value; every read still takes bytes off    *)
(* the front of the stream one uart_read_bytes call at a time.             *)
(***************************************************************************)
EXTENDS Integers, Sequences, FiniteSets, TLC

(***************************************************************************)
(* Program constants                                                       *)
(***************************************************************************)
MSG_DEVINFO == 0
MSG_LINK == 1
MSG_GET_LINK == 2
MSG_CLIENTCONFIG == 3
MSG_PACKET == 4
MSG_INTRON == 5
MSG_START_SOFTAP == 6
MSG_ALIVE == 7
FW_VERSION == 8
IntronLen == 8
MaxPacketLen == 2000
SsidFieldLen == 32
PassFieldLen == 64
QueueLength == 20
MAC_LEN == 6
RebootChannel == 255
SilentChannelBase == 100
\* The results of the driver's calls (esp_err_t): ESP_OK, or an error such as ESP_FAIL.
\* now_seconds() is xTaskGetTickCount() / configTICK_RATE_HZ: the 32-bit tick
\* count wraps, so at the SDK's 100 ticks a second the last second before the
\* clock reads 0 again is (2^32 - 1) \div 100.
LastSecond == 42949672
ESP_OK == 0
ESP_FAIL == -1

\* static char intron[8] = {'U', 'N', 0, 1, 2, 3, 4, 5}
DefaultIntron == <<85, 78, 0, 1, 2, 3, 4, 5>>

\* The station MAC (mac[], filled by esp_wifi_get_mac): an arbitrary unicast address.
StationMac == <<2, 17, 34, 51, 68, 86>>

(***************************************************************************)
(* Bounds of the model                                                     *)
(***************************************************************************)
\* Items (stray bytes and frames) the host writes to the serial link in one run.
MaxSends == 2
\* Allocations refused in one run.
MaxNoMem == 1
\* Frames offered to a queue beyond its capacity in a burst.
MaxExtra == 2
\* Frames from each side in a mixed run.
MaxMixed == 2
\* Frames from the host, frames from the radio and link events while the writers
\* are watched.
MaxTxFrames == 2
MaxTxPackets == 1
MaxTxEvents == 1
\* Alive frames the soft-AP task sends in one run.
MaxAlive == 1
\* Packet frames the host writes while the egress path is followed end to end,
\* and the payload lengths it declares.
MaxEgress == 2
ScenarioLen == 5
\* The ssid length of the credential scenario.
ScenarioSsidLen == 10
\* Length of the frames the radio delivers: an Ethernet header.
RadioFrameLen == 14
\* Frames the radio delivers while the serial output is wired back to the input.
MaxLoop == 2
\* Frames received and link events posted while the program starts.
MaxBootFrames == 2
MaxBootEvents == 1
\* Link events the driver posts while the host may ask for the access point.
MaxRetryEvents == 3
\* Link events the driver posts while the clock wraps, the seconds left to the
\* wrap at the start, and the seconds the last inbound frame lies further back.
MaxClockEvents == 1
ClockLead == 1
LastLead == 5
\* Seconds the clock runs.
MaxTicks == 7
\* Frames the host writes while the link is watched.
MaxChecks == 2
\* Frames the host writes while the four writers contend for the lock.
MaxMutexFrames == 1
\* Frames the host writes while one probe cycle is followed to its end.
MaxProbeChecks == 1
\* Connection events the driver posts in one run.
MaxEvents == 2

(***************************************************************************)
(* Byte streams, run-length encoded                                        *)
(***************************************************************************)
Min(a, b) == IF a <= b THEN a ELSE b

Run(b, n) == [b |-> b, n |-> n]

\* The runs of a plain byte sequence, adjacent equal bytes merged.
RECURSIVE Norm(_)
Norm(r) ==
    IF Len(r) <= 1 THEN r
    ELSE IF r[1].b = r[2].b
         THEN Norm(<<Run(r[1].b, r[1].n + r[2].n)>> \o SubSeq(r, 3, Len(r)))
         ELSE <<r[1]>> \o Norm(Tail(r))

Pack(s) == Norm([i \in 1..Len(s) |-> Run(s[i], 1)])

Fill(b, n) == IF n = 0 THEN <<>> ELSE <<Run(b, n)>>

Cat(r1, r2) == Norm(r1 \o r2)

RECURSIVE RxLen(_)
RxLen(r) == IF r = <<>> THEN 0 ELSE r[1].n + RxLen(Tail(r))

\* The first k bytes of a stream, and the stream without them.
RECURSIVE RxTake(_, _)
RxTake(r, k) ==
    IF k = 0 \/ r = <<>> THEN <<>>
    ELSE IF r[1].n <= k THEN <<r[1]>> \o RxTake(Tail(r), k - r[1].n)
    ELSE <<Run(r[1].b, k)>>

RECURSIVE RxDrop(_, _)
RxDrop(r, k) ==
    IF k = 0 \/ r = <<>> THEN r
    ELSE IF r[1].n <= k THEN RxDrop(Tail(r), k - r[1].n)
    ELSE <<Run(r[1].b, r[1].n - k)>> \o Tail(r)

\* The plain byte sequence of a (short) stream.
RECURSIVE Expand(_)
Expand(r) == IF r = <<>> THEN <<>> ELSE [i \in 1..r[1].n |-> r[1].b] \o Expand(Tail(r))

\* A uint32_t written most significant byte first.
LE32_BigEndian(n) == <<(n \div 16777216) % 256, (n \div 65536) % 256, (n \div 256) % 256, n % 256>>

\* A uint32_t as it lies in memory on the (little-endian) target, and back.
LE32(n) == <<n % 256, (n \div 256) % 256, (n \div 65536) % 256, (n \div 16777216) % 256>>
FromLE32(s) == s[1] + 256 * s[2] + 65536 * s[3] + 16777216 * s[4]
LE16(n) == <<n % 256, (n \div 256) % 256>>

(***************************************************************************)
(* State                                                                   *)
(***************************************************************************)
VARIABLES
    rx,                 \* serial input not yet read (UART driver's receive buffer)
    tx,                 \* serial output: the uart_write_bytes calls made, in order
    intron,             \* static char intron[8]
    uart_mtx,           \* the task holding the serial-write lock, or "none"
    task,               \* per task: its position (pc) and its locals
    heap,               \* the live heap objects, and how many allocations were refused
    uart_tx_queue,      \* ingress queue: pointers to wifi_receive_buff
    wifi_egress_queue,  \* egress queue: pointers to wifi_send_buff
    associated,
    probe_in_progress,
    last_inbound_seen,
    beacon_quirk,
    probe_retry_count,
    s_retry_num,
    ap_silent,
    ticks,              \* now_seconds()
    radio,              \* what the WiFi driver has been asked to do
    halted,             \* "no", "restart" (esp_restart) or "abort" (ESP_ERROR_CHECK)
    host,               \* the peer on the serial link: what it sent and declared
    rxcount,            \* bytes the read loop has taken from rx so far
    win,                \* the last bytes wait_for_intron consumed, each with the cursor it met
    fr,                 \* the frame the read loop last dispatched on
    fault               \* memory errors seen so far

serialVars == <<rx, tx, intron, uart_mtx>>
memVars == <<heap, uart_tx_queue, wifi_egress_queue>>
linkVars == <<associated, probe_in_progress, last_inbound_seen, beacon_quirk,
              probe_retry_count, s_retry_num, ticks>>
ghostVars == <<host, rxcount, win, fr, fault>>
vars == <<rx, tx, intron, uart_mtx, task, heap, uart_tx_queue, wifi_egress_queue,
          associated, probe_in_progress, last_inbound_seen, beacon_quirk,
          probe_retry_count, s_retry_num, ap_silent, ticks, radio, halted,
          host, rxcount, win, fr, fault>>

RX == "output_rx_thread"
TXT == "uart_tx_thread"
EGT == "wifi_egress_thread"
EVT == "event_loop"
APT == "ap_task"

Running == halted = "no"

(***************************************************************************)
(* Heap objects: malloc, free, and the accesses that must find them live   *)
(***************************************************************************)
NULL == <<>>

\* The live objects of heap h.
Live(h) == DOMAIN h.obj

\* A memory state: the heap together with the memory errors made so far.
Mem == [heap |-> heap, fault |-> fault]

\* malloc() that succeeds: object `id` comes to life with contents obj.
Malloc(h, id, obj) == [h EXCEPT !.obj = (id :> obj) @@ @]

\* malloc() that returns NULL.
MallocFails(h) == [h EXCEPT !.fails = @ + 1]

\* free(o): the object is gone; freeing what is not live is a double free.
Free(m, o) ==
    IF o \in Live(m.heap)
    THEN [m EXCEPT !.heap.obj = [x \in DOMAIN @ \ {o} |-> @[x]]]
    ELSE [m EXCEPT !.fault = @ \cup {"double_free"}]

\* A read or write through pointer o by the running code.
Touch(m, o) ==
    IF o \in Live(m.heap) THEN m ELSE [m EXCEPT !.fault = @ \cup {"use_after_free"}]

\* A release that forgets the payload storage.
free_wifi_send_buff_KeepsData(m, buff) == Free(m, buff)

\* free_wifi_send_buff: if(buff->data) free(buff->data); free(buff);
free_wifi_send_buff(m, buff) ==
    IF buff \notin Live(m.heap)
    THEN Free(Touch(m, buff), buff)
    ELSE LET data == m.heap.obj[buff].data
         IN Free(IF data # NULL THEN Free(m, data) ELSE m, buff)

\* free_wifi_receive_buff: release rx_buff through the driver, free data, free buff.
free_wifi_receive_buff(m, buff) ==
    IF buff \notin Live(m.heap)
    THEN Free(Touch(m, buff), buff)
    ELSE LET rx_buff == m.heap.obj[buff].rx_buff
             data == m.heap.obj[buff].data
             m1 == IF rx_buff # NULL THEN Free(m, rx_buff) ELSE m
             m2 == IF data # NULL THEN Free(m1, data) ELSE m1
         IN Free(m2, buff)

(***************************************************************************)
(* Writing one frame to the serial link                                    *)
(*                                                                         *)
(* Every sender takes uart_mtx, makes its uart_write_bytes calls and gives *)
(* the lock back.  A task about to send has pc "send_take", the calls left *)
(* in wq and the place to go on at in ret.                                 *)
(***************************************************************************)
TokenChunk == [k |-> "intron"]
MacChunk == [k |-> "mac"]
Bytes(s) == [k |-> "bytes", v |-> Pack(s)]
Data(r) == [k |-> "bytes", v |-> r]

link_status_frame(up) == <<TokenChunk, Bytes(<<MSG_LINK>>), Bytes(<<up>>)>>
alive_frame(code) == <<TokenChunk, Bytes(<<MSG_ALIVE, code>>)>>
device_info_frame == <<TokenChunk, Bytes(<<MSG_DEVINFO>>), Bytes(LE16(FW_VERSION)), MacChunk>>
packet_frame(len, data) == <<TokenChunk, Bytes(<<MSG_PACKET>>), Bytes(LE32(len)), Data(data)>>

StartSend(rec, chunks, ret) ==
    [rec EXCEPT !.pc = "send_take", !.wq = chunks, !.nwq = Len(chunks), !.ret = ret]

\* A take that never waits.
MutexAvailable_Always(t) == TRUE

\* xSemaphoreTake(uart_mtx, portMAX_DELAY) returns once the lock is free.
MutexAvailable(t) == uart_mtx = "none"

SendTake(t) ==
    /\ Running
    /\ task[t].pc = "send_take"
    /\ MutexAvailable(t)
    /\ uart_mtx' = t
    /\ task' = [task EXCEPT ![t].pc = "send_write"]
    /\ UNCHANGED <<rx, tx, intron, memVars, linkVars, ap_silent, radio, halted, ghostVars>>

\* The bytes one uart_write_bytes call puts on the wire.
ChunkBytes(c) ==
    CASE c.k = "intron" -> Pack(intron)
      [] c.k = "mac" -> Pack(StationMac)
      [] OTHER -> c.v

SendWrite(t) ==
    /\ Running
    /\ task[t].pc = "send_write"
    /\ LET c == Head(task[t].wq)
           rest == Tail(task[t].wq)
       IN /\ tx' = Append(tx, [by |-> t,
                               first |-> Len(task[t].wq) = task[t].nwq,
                               last |-> rest = <<>>,
                               tok |-> c.k = "intron",
                               buff |-> task[t].buff,
                               bytes |-> ChunkBytes(c)])
          /\ task' = [task EXCEPT ![t].wq = rest,
                                  ![t].pc = IF rest = <<>> THEN "send_give" ELSE "send_write"]
    /\ UNCHANGED <<rx, intron, uart_mtx, memVars, linkVars, ap_silent, radio, halted, ghostVars>>

\* A give that leaves the lock with its holder.
MutexGiven_Kept(t) == t

\* xSemaphoreGive(uart_mtx)
MutexGiven(t) == "none"

SendGive(t) ==
    /\ Running
    /\ task[t].pc = "send_give"
    /\ uart_mtx' = MutexGiven(t)
    /\ task' = [task EXCEPT ![t].pc = task[t].ret]
    /\ UNCHANGED <<rx, tx, intron, memVars, linkVars, ap_silent, radio, halted, ghostVars>>

\* A task inside a send_* function: it takes the lock, writes and gives it back.
SendStep(t) == SendTake(t) \/ SendWrite(t) \/ SendGive(t)

(***************************************************************************)
(* The host on the other end of the serial link                            *)
(*                                                                         *)
(* The host writes stray bytes and whole frames (its token, a type byte,   *)
(* the payload the protocol defines).  It writes the next item once the    *)
(* read loop has taken everything written so far: the read loop sees only  *)
(* the byte stream, so this loses no behaviour of it.  host.frames keeps   *)
(* where in the stream each frame's type byte and end lie and what the     *)
(* frame declared.                                                         *)
(***************************************************************************)
StrayByte == 254
PayloadByte == 170
SsidByte == 115
PassByte == 112
UnknownType == 9
\* Type bytes read_message does not handle: the types of the frames the device
\* itself sends, and an unassigned one.
UnknownTypes == {MSG_DEVINFO, MSG_LINK, MSG_ALIVE, UnknownType}

\* Declared Packet lengths the host uses: empty, short, the largest accepted, too large.
PacketLens == {0, 2, MaxPacketLen, MaxPacketLen + 1}
\* Declared credential lengths: within the field, filling it, and past it.
SsidLens == {1, ScenarioSsidLen, SsidFieldLen + 1}
PassLens == {0, 1, PassFieldLen + 1}
\* The first byte of a password the host sends: a character, or a zero byte.
PassFirst == {PassByte, 0}
EgressLens == {0, ScenarioLen, MaxPacketLen}
\* Tokens the host may switch to.
NewIntrons == {<<85, 85, 78, 0, 1, 2, 3, 4>>}
SoftApChannels == {1, SilentChannelBase + 1, RebootChannel}

HostCanSend == Running /\ host.sent < host.limit /\ rx = <<>>

\* The host appends `bytes` (runs); when they are a frame, rec describes it.
HostPut(bytes, recs, tok) ==
    /\ rx' = Cat(rx, bytes)
    /\ host' = [host EXCEPT !.sent = @ + 1,
                            !.bytes = @ + RxLen(bytes),
                            !.frames = @ \o recs,
                            !.tok = tok]

FrameRec(type, paylen, d) ==
    [type |-> type,
     at |-> host.bytes + IntronLen,
     end |-> host.bytes + IntronLen + 1 + paylen,
     tok |-> host.tok] @@ d

HostFrame(type, payload, d, tok) ==
    HostPut(Cat(Pack(host.tok \o <<type>>), payload),
            <<FrameRec(type, RxLen(payload), d)>>, tok)

HostStray ==
    /\ HostCanSend
    /\ \E b \in {host.tok[1], StrayByte} : HostPut(Pack(<<b>>), <<>>, host.tok)
    /\ UNCHANGED <<tx, intron, uart_mtx, task, memVars, linkVars, ap_silent, radio, halted,
                   rxcount, win, fr, fault>>

HostPacket ==
    /\ HostCanSend
    /\ \E n \in host.lens :
          HostFrame(MSG_PACKET, Cat(Pack(LE32(n)), Fill(PayloadByte, n)),
                    [len |-> n], host.tok)
    /\ UNCHANGED <<tx, intron, uart_mtx, task, memVars, linkVars, ap_silent, radio, halted,
                   rxcount, win, fr, fault>>

HostClientConfig ==
    /\ HostCanSend
    /\ \E sl \in SsidLens, pl \in PassLens, p0 \in PassFirst :
          /\ pl = 0 => p0 = PassByte
          /\ HostFrame(MSG_CLIENTCONFIG,
                       Cat(Cat(Pack(<<sl>>), Fill(SsidByte, sl)),
                           Cat(Pack(<<pl>>),
                               IF pl = 0 THEN <<>>
                               ELSE Cat(Pack(<<p0>>), Fill(PassByte, pl - 1)))),
                       [ssid_len |-> sl, pass_len |-> pl, pass0 |-> p0], host.tok)
    /\ UNCHANGED <<tx, intron, uart_mtx, task, memVars, linkVars, ap_silent, radio, halted,
                   rxcount, win, fr, fault>>

HostGetLink ==
    /\ HostCanSend
    /\ HostFrame(MSG_GET_LINK, <<>>, <<>>, host.tok)
    /\ UNCHANGED <<tx, intron, uart_mtx, task, memVars, linkVars, ap_silent, radio, halted,
                   rxcount, win, fr, fault>>

HostIntron ==
    /\ HostCanSend
    /\ \E t \in NewIntrons \ {host.tok} : HostFrame(MSG_INTRON, Pack(t), [new |-> t], t)
    /\ UNCHANGED <<tx, intron, uart_mtx, task, memVars, linkVars, ap_silent, radio, halted,
                   rxcount, win, fr, fault>>

HostSoftAp ==
    /\ HostCanSend
    /\ \E ch \in host.channels :
          HostFrame(MSG_START_SOFTAP, Pack(<<ch>>), [channel |-> ch], host.tok)
    /\ UNCHANGED <<tx, intron, uart_mtx, task, memVars, linkVars, ap_silent, radio, halted,
                   rxcount, win, fr, fault>>

HostUnknown ==
    /\ HostCanSend
    /\ \E type \in host.unknown : HostFrame(type, <<>>, <<>>, host.tok)
    /\ UNCHANGED <<tx, intron, uart_mtx, task, memVars, linkVars, ap_silent, radio, halted,
                   rxcount, win, fr, fault>>

(***************************************************************************)
(* The read loop: output_rx_thread -> read_message                         *)
(***************************************************************************)
Rd == task[RX]

\* The read loop's locals on entry to read_message: wait_for_intron's cursor is 0.
RdStart ==
    [pc |-> "wait_for_intron", pos |-> 0, type |-> 0, size |-> 0, need |-> 0, buf |-> <<>>,
     buff |-> NULL, i |-> 0, ssid_len |-> 0, ssid |-> <<>>, pass_len |-> 0,
     wq |-> <<>>, nwq |-> 0, ret |-> "return"]

\* A scanner that keeps its cursor on a mismatch.
ScanStep_NoReset(tok, pos, c) == IF c = tok[pos + 1] THEN pos + 1 ELSE pos

\* One iteration of wait_for_intron's loop on byte c with the cursor at pos.
ScanStep(tok, pos, c) == IF c = tok[pos + 1] THEN pos + 1 ELSE 0

\* The last IntronLen bytes consumed, each with the cursor it was compared at.
Window(w, c, p) ==
    LET w1 == Append(w, [b |-> c, at |-> p])
    IN IF Len(w1) > IntronLen THEN Tail(w1) ELSE w1

WaitForIntron ==
    /\ Running
    /\ Rd.pc = "wait_for_intron"
    /\ rx # <<>>
    /\ LET c == rx[1].b
           p == ScanStep(intron, Rd.pos, c)
       IN /\ task' = [task EXCEPT ![RX].pos = p,
                                  ![RX].pc = IF p < IntronLen THEN "wait_for_intron"
                                             ELSE "check_online_status"]
          /\ win' = Window(win, c, Rd.pos)
    /\ rx' = RxDrop(rx, 1)
    /\ rxcount' = rxcount + 1
    /\ UNCHANGED <<tx, intron, uart_mtx, memVars, linkVars, ap_silent, radio, halted,
                   host, fr, fault>>

\* A check that goes on while a probe is in progress.
NothingToCheck_IgnoresProbe(assoc, probing) == ~assoc

\* if (!associated || probe_in_progress) return;
NothingToCheck(assoc, probing) == ~assoc \/ probing

\* check_online_status, first its test of the two flags ...
CheckOnlineStatus ==
    /\ Running
    /\ Rd.pc = "check_online_status"
    /\ task' = [task EXCEPT ![RX].pc = IF NothingToCheck(associated, probe_in_progress)
                                       THEN "read_type" ELSE "check_elapsed"]
    /\ UNCHANGED <<serialVars, memVars, linkVars, ap_silent, radio, halted, ghostVars>>

\* A clock reading that ignores the last inbound time.
Elapsed_Zero(now, last) == 0

\* A clock reading that counts the seconds before the wrap as well.
Elapsed_AcrossWrap(now, last) ==
    IF now >= last THEN now - last ELSE now + (LastSecond - last) + 1

Elapsed(now, last) == IF now >= last THEN now - last ELSE now

INACTIVE_PACKET_SECONDS == 5

\* ... then the elapsed time, and the start of a probe: probe_run creates probe_task.
CheckElapsed ==
    /\ Running
    /\ Rd.pc = "check_elapsed"
    /\ IF Elapsed(ticks, last_inbound_seen) > INACTIVE_PACKET_SECONDS
       THEN /\ probe_in_progress' = TRUE
            /\ probe_retry_count' = 0
            /\ radio' = [radio EXCEPT !.probe_tasks = @ + 1,
                                      !.cyc = [scans |-> 0, misses |-> 0, down |-> FALSE,
                                               last |-> last_inbound_seen]]
       ELSE UNCHANGED <<probe_in_progress, probe_retry_count, radio>>
    /\ task' = [task EXCEPT ![RX].pc = "read_type"]
    /\ UNCHANGED <<serialVars, memVars, associated, last_inbound_seen, beacon_quirk,
                   s_retry_num, ticks, ap_silent, halted, ghostVars>>

\* The host frame whose type byte lies at stream offset off, if there is one.
FramesAt(off) == {i \in 1..Len(host.frames) : host.frames[i].at = off}

\* uart_read_bytes(&type, 1) and the dispatch on it.
\* A dispatch that answers an Alive frame like a GetLinkStatus.
Dispatch_AliveAsGetLink(type) ==
    CASE type = MSG_PACKET -> "read_packet_size"
      [] type = MSG_CLIENTCONFIG -> "read_ssid_len"
      [] type \in {MSG_GET_LINK, MSG_ALIVE} -> "get_link_status"
      [] type = MSG_INTRON -> "read_intron"
      [] type = MSG_START_SOFTAP -> "softap_alive"
      [] OTHER -> "return"

\* if (type == MSG_PACKET) ... else if ... else "Unknown message type"
Dispatch(type) ==
    CASE type = MSG_PACKET -> "read_packet_size"
      [] type = MSG_CLIENTCONFIG -> "read_ssid_len"
      [] type = MSG_GET_LINK -> "get_link_status"
      [] type = MSG_INTRON -> "read_intron"
      [] type = MSG_START_SOFTAP -> "softap_alive"
      [] OTHER -> "return"

ReadType ==
    /\ Running
    /\ Rd.pc = "read_type"
    /\ rx # <<>>
    /\ LET type == rx[1].b
           next == Dispatch(type)
           need == CASE type = MSG_PACKET -> 4
                     [] type = MSG_INTRON -> IntronLen
                     [] OTHER -> 1
       IN /\ task' = [task EXCEPT ![RX].pc = next, ![RX].type = type,
                                  ![RX].need = need, ![RX].buf = <<>>]
          /\ fr' = [type |-> type,
                    at |-> rxcount,
                    src |-> IF FramesAt(rxcount) = {} THEN 0
                            ELSE CHOOSE i \in FramesAt(rxcount) : TRUE,
                    retAt |-> -1,
                    mallocs |-> 0,
                    queued |-> 0,
                    nomem |-> FALSE,
                    accepted |-> fr.accepted]
    /\ rx' = RxDrop(rx, 1)
    /\ rxcount' = rxcount + 1
    /\ UNCHANGED <<tx, intron, uart_mtx, memVars, linkVars, ap_silent, radio, halted,
                   host, win, fault>>

\* read_message returns and output_rx_thread calls it again.
ReadMessageReturn ==
    /\ Running
    /\ Rd.pc = "return"
    /\ task' = [task EXCEPT ![RX] = RdStart]
    /\ fr' = [fr EXCEPT !.retAt = rxcount]
    /\ win' = <<>>
    /\ UNCHANGED <<serialVars, memVars, linkVars, ap_silent, radio, halted,
                   host, rxcount, fault>>

(***************************************************************************)
(* read_uart(buff, len): uart_read_bytes hands over what has arrived, up   *)
(* to the bytes still missing, until len bytes are read; with len = 0 it   *)
(* returns at once.                                                        *)
(***************************************************************************)
CanRead(need) == need = 0 \/ rx # <<>>
ReadNow(need) == Min(RxLen(rx), need)

\* Allocations may be refused while fewer than MaxNoMem have been.
MayFail == heap.fails < MaxNoMem

\* The objects of the Packet frame whose type byte lies at stream offset `at`.
SendBuff(at) == <<"wifi_send_buff", at>>
SendData(at) == <<"wifi_send_buff.data", at>>

\* read_packet_message: the 4-byte size, the bound, the two allocations.
ReadPacketSize ==
    /\ Running
    /\ Rd.pc = "read_packet_size"
    /\ CanRead(Rd.need)
    /\ LET k == ReadNow(Rd.need)
           got == Cat(Rd.buf, RxTake(rx, k))
           size == FromLE32(Expand(got))
           buff == SendBuff(fr.at)
       IN /\ rx' = RxDrop(rx, k)
          /\ rxcount' = rxcount + k
          /\ IF k < Rd.need
             THEN /\ task' = [task EXCEPT ![RX].need = @ - k, ![RX].buf = got]
                  /\ UNCHANGED <<heap, fault, fr>>
             ELSE IF size > MaxPacketLen
             THEN /\ task' = [task EXCEPT ![RX].pc = "return", ![RX].size = size]
                  /\ UNCHANGED <<heap, fault, fr>>
             ELSE \E outcome \in {"ok"} \cup (IF MayFail THEN {"no_buff", "no_data"} ELSE {}) :
                    CASE outcome = "no_buff" ->
                         \* malloc(sizeof(wifi_send_buff)) failed
                         /\ heap' = MallocFails(heap)
                         /\ task' = [task EXCEPT ![RX].pc = "packet_nomem", ![RX].size = size,
                                                 ![RX].i = 0]
                         /\ fr' = [fr EXCEPT !.nomem = TRUE]
                         /\ UNCHANGED fault
                      [] outcome = "no_data" ->
                         \* malloc(buff->len) failed: free(buff)
                         LET m == Free([Mem EXCEPT !.heap =
                                           MallocFails(Malloc(heap, buff,
                                                              [len |-> size, data |-> NULL]))],
                                       buff)
                         IN /\ heap' = m.heap
                            /\ fault' = m.fault
                            /\ fr' = [fr EXCEPT !.mallocs = @ + 1, !.nomem = TRUE]
                            /\ task' = [task EXCEPT ![RX].pc = "packet_nomem",
                                                    ![RX].size = size, ![RX].i = 0]
                      [] OTHER ->
                         /\ heap' = Malloc(Malloc(heap, buff,
                                                  [len |-> size, data |-> SendData(fr.at)]),
                                           SendData(fr.at), [bytes |-> <<>>])
                         /\ fr' = [fr EXCEPT !.mallocs = @ + 2]
                         /\ task' = [task EXCEPT ![RX].pc = "read_packet_data",
                                                 ![RX].size = size,
                                                 ![RX].buff = buff,
                                                 ![RX].need = size, ![RX].buf = <<>>]
                         /\ UNCHANGED fault
    /\ UNCHANGED <<tx, intron, uart_mtx, uart_tx_queue, wifi_egress_queue, linkVars,
                   ap_silent, radio, halted, host, win>>

\* A queue without a capacity.
EnqueueSucceeds_Always(q) == TRUE

\* xQueueSendToBack(queue, &buff, 0): fails at once when QueueLength items wait.
EnqueueSucceeds(q) == Len(q) < QueueLength

\* read_uart(buff->data, buff->len), then the non-blocking enqueue; a buffer the
\* queue refuses is released here.
ReadPacketData ==
    /\ Running
    /\ Rd.pc = "read_packet_data"
    /\ CanRead(Rd.need)
    /\ LET k == ReadNow(Rd.need)
           got == Cat(Rd.buf, RxTake(rx, k))
           buff == Rd.buff
           m0 == Touch(Mem, buff)
           data == IF buff \in Live(heap) THEN heap.obj[buff].data ELSE NULL
           m1 == IF data \in Live(heap)
                 THEN [m0 EXCEPT !.heap.obj[data].bytes = got]
                 ELSE Touch(m0, data)
           m2 == IF k < Rd.need \/ EnqueueSucceeds(wifi_egress_queue)
                 THEN m1 ELSE free_wifi_send_buff(m1, buff)
       IN /\ rx' = RxDrop(rx, k)
          /\ rxcount' = rxcount + k
          /\ heap' = m2.heap
          /\ fault' = m2.fault
          /\ IF k < Rd.need
             THEN /\ task' = [task EXCEPT ![RX].need = @ - k, ![RX].buf = got]
                  /\ UNCHANGED <<wifi_egress_queue, fr>>
             ELSE IF EnqueueSucceeds(wifi_egress_queue)
             THEN /\ wifi_egress_queue' = Append(wifi_egress_queue, buff)
                  /\ fr' = [fr EXCEPT !.queued = @ + 1, !.accepted = Append(@, buff)]
                  /\ task' = [task EXCEPT ![RX].pc = "return", ![RX].buf = <<>>,
                                          ![RX].buff = NULL]
             ELSE /\ task' = [task EXCEPT ![RX].pc = "return", ![RX].buf = <<>>,
                                          ![RX].buff = NULL]
                  /\ UNCHANGED <<wifi_egress_queue, fr>>
    /\ UNCHANGED <<tx, intron, uart_mtx, uart_tx_queue, linkVars, ap_silent, radio, halted,
                   host, win>>

\* A drain loop that reads one byte more.
DrainMore_Inclusive(i, size) == i <= size

\* i < size
DrainMore(i, size) == i < size

\* nomem: for (i = 0; i < size; ++i) read_uart(&c, 1);
PacketNoMem ==
    /\ Running
    /\ Rd.pc = "packet_nomem"
    /\ IF DrainMore(Rd.i, Rd.size)
       THEN /\ rx # <<>>
            /\ rx' = RxDrop(rx, 1)
            /\ rxcount' = rxcount + 1
            /\ task' = [task EXCEPT ![RX].i = @ + 1]
       ELSE /\ task' = [task EXCEPT ![RX].pc = "return"]
            /\ UNCHANGED <<rx, rxcount>>
    /\ UNCHANGED <<tx, intron, uart_mtx, memVars, linkVars, ap_silent, radio, halted,
                   host, win, fr, fault>>

\* The build's CONFIG_ESP_MAXIMUM_RETRY (a Kconfig setting, not in the sources).
CONFIG_ESP_MAXIMUM_RETRY == 2

\* read_wifi_client_message: ssid_len, clamped to sizeof(wifi_config.sta.ssid).
ReadSsidLen ==
    /\ Running
    /\ Rd.pc = "read_ssid_len"
    /\ rx # <<>>
    /\ LET ssid_len == rx[1].b
       IN task' = [task EXCEPT ![RX].pc = "read_ssid",
                               ![RX].ssid_len = Min(ssid_len, SsidFieldLen),
                               ![RX].need = Min(ssid_len, SsidFieldLen),
                               ![RX].buf = <<>>]
    /\ rx' = RxDrop(rx, 1)
    /\ rxcount' = rxcount + 1
    /\ UNCHANGED <<tx, intron, uart_mtx, memVars, linkVars, ap_silent, radio, halted,
                   host, win, fr, fault>>

\* read_uart(wifi_config.sta.ssid, ssid_len)
ReadSsid ==
    /\ Running
    /\ Rd.pc = "read_ssid"
    /\ CanRead(Rd.need)
    /\ LET k == ReadNow(Rd.need)
           got == Cat(Rd.buf, RxTake(rx, k))
       IN /\ rx' = RxDrop(rx, k)
          /\ rxcount' = rxcount + k
          /\ task' = IF k < Rd.need
                     THEN [task EXCEPT ![RX].need = @ - k, ![RX].buf = got]
                     ELSE [task EXCEPT ![RX].pc = "read_pass_len", ![RX].ssid = got,
                                       ![RX].need = 1, ![RX].buf = <<>>]
    /\ UNCHANGED <<tx, intron, uart_mtx, memVars, linkVars, ap_silent, radio, halted,
                   host, win, fr, fault>>

\* pass_len, clamped to sizeof(wifi_config.sta.password)
ReadPassLen ==
    /\ Running
    /\ Rd.pc = "read_pass_len"
    /\ rx # <<>>
    /\ LET pass_len == rx[1].b
       IN task' = [task EXCEPT ![RX].pc = "read_password",
                               ![RX].pass_len = Min(pass_len, PassFieldLen),
                               ![RX].need = Min(pass_len, PassFieldLen),
                               ![RX].buf = <<>>]
    /\ rx' = RxDrop(rx, 1)
    /\ rxcount' = rxcount + 1
    /\ UNCHANGED <<tx, intron, uart_mtx, memVars, linkVars, ap_silent, radio, halted,
                   host, win, fr, fault>>

\* strlen() of the zero-initialised password field holding the bytes read.
PasswordStrlen(password) ==
    IF password = <<>> \/ password[1].b = 0 THEN 0
    ELSE IF \E j \in 1..Len(password) : password[j].b = 0
         THEN RxLen(SubSeq(password, 1, (CHOOSE j \in 1..Len(password) :
                               /\ password[j].b = 0
                               /\ \A h \in 1..(j - 1) : password[h].b # 0) - 1))
         ELSE RxLen(password)

\* read_uart(wifi_config.sta.password, pass_len), the reconfiguration, send_device_info.
ReadPassword ==
    /\ Running
    /\ Rd.pc = "read_password"
    /\ CanRead(Rd.need)
    /\ LET k == ReadNow(Rd.need)
           got == Cat(Rd.buf, RxTake(rx, k))
       IN /\ rx' = RxDrop(rx, k)
          /\ rxcount' = rxcount + k
          /\ IF k < Rd.need
             THEN /\ task' = [task EXCEPT ![RX].need = @ - k, ![RX].buf = got]
                  /\ UNCHANGED radio
             ELSE \* esp_wifi_stop(); esp_wifi_set_config(); esp_wifi_start(): the
                  \* station restarts and the driver posts WIFI_EVENT_STA_START
                  /\ radio' = [radio EXCEPT
                                 !.cfg = [ssid |-> Rd.ssid, password |-> got,
                                          authmode |-> IF PasswordStrlen(got) > 0
                                                       THEN "WPA2_PSK" ELSE "OPEN"],
                                 !.reconfigs = @ + 1,
                                 !.sta = IF radio.mode = "sta" THEN "down" ELSE @,
                                 !.evq = IF radio.mode = "sta"
                                         THEN Append(@, [kind |-> "sta_start"]) ELSE @]
                  /\ task' = [task EXCEPT ![RX] = StartSend(Rd, device_info_frame, "return")]
    /\ UNCHANGED <<tx, intron, uart_mtx, memVars, linkVars, ap_silent, halted,
                   host, win, fr, fault>>

\* esp_wifi_sta_get_ap_info() == ESP_OK
Connected == radio.mode = "sta" /\ radio.sta = "connected"

\* get_link_status: associated = (esp_wifi_sta_get_ap_info() == ESP_OK); send_link_status.
GetLinkStatus ==
    /\ Running
    /\ Rd.pc = "get_link_status"
    /\ associated' = Connected
    /\ task' = [task EXCEPT ![RX] =
                   StartSend(Rd, link_status_frame(IF Connected THEN 1 ELSE 0), "return")]
    /\ UNCHANGED <<serialVars, memVars, probe_in_progress, last_inbound_seen, beacon_quirk,
                   probe_retry_count, s_retry_num, ticks, ap_silent, radio, halted, ghostVars>>

\* A handler that reads the new token and leaves intron[] as it was.
Overwrite_KeepsOld(tok, done, got) == tok

\* intron[] after read_uart has copied the next k bytes (got) behind the `done` already copied.
Overwrite(tok, done, got) ==
    [j \in 1..IntronLen |-> IF j > done /\ j <= done + Len(got) THEN got[j - done] ELSE tok[j]]

\* read_intron_message: read_uart((uint8_t*)intron, sizeof(intron)) copies the new token
\* into intron[] in place, as the bytes arrive, in pieces of any size.
ReadIntron ==
    /\ Running
    /\ Rd.pc = "read_intron"
    /\ rx # <<>>
    /\ \E k \in 1..ReadNow(Rd.need) :
          /\ intron' = Overwrite(intron, IntronLen - Rd.need, Expand(RxTake(rx, k)))
          /\ rx' = RxDrop(rx, k)
          /\ rxcount' = rxcount + k
          /\ task' = IF k < Rd.need
                     THEN [task EXCEPT ![RX].need = @ - k]
                     ELSE [task EXCEPT ![RX].pc = "return"]
    /\ UNCHANGED <<tx, uart_mtx, memVars, linkVars, ap_silent, radio, halted,
                   host, win, fr, fault>>

\* MSG_START_SOFTAP: send_alive(99), then read_softap_message.
SoftApAlive ==
    /\ Running
    /\ Rd.pc = "softap_alive"
    /\ task' = [task EXCEPT ![RX] = StartSend(Rd, alive_frame(99), "read_channel")]
    /\ UNCHANGED <<serialVars, memVars, linkVars, ap_silent, radio, halted, ghostVars>>

\* read_softap_message: channel 255 restarts the chip; any other starts the soft AP
\* (start_softap up to its first send_alive).
ReadChannel ==
    /\ Running
    /\ Rd.pc = "read_channel"
    /\ rx # <<>>
    /\ LET channel == rx[1].b
       IN IF channel = RebootChannel
          THEN /\ halted' = "restart"
               /\ UNCHANGED <<task, s_retry_num, ap_silent>>
          ELSE /\ s_retry_num' = CONFIG_ESP_MAXIMUM_RETRY
               /\ ap_silent' = (channel > SilentChannelBase)
               /\ task' = [task EXCEPT ![RX] =
                              StartSend([Rd EXCEPT !.i = IF channel > SilentChannelBase
                                                         THEN channel - SilentChannelBase
                                                         ELSE channel],
                                        alive_frame(10), "start_softap")]
               /\ UNCHANGED halted
    /\ rx' = RxDrop(rx, 1)
    /\ rxcount' = rxcount + 1
    /\ UNCHANGED <<tx, intron, uart_mtx, memVars, associated, probe_in_progress,
                   last_inbound_seen, beacon_quirk, probe_retry_count, ticks, radio,
                   host, win, fr, fault>>

\* start_softap: the station is torn down, the access point brought up (the driver
\* will report WIFI_EVENT_AP_START), send_alive(20).
StartSoftAp ==
    /\ Running
    /\ Rd.pc = "start_softap"
    /\ radio' = [radio EXCEPT !.mode = "ap", !.channel = Rd.i, !.sta = "down",
                              !.evq = Append(@, [kind |-> "ap_start"])]
    /\ task' = [task EXCEPT ![RX] = StartSend(Rd, alive_frame(20), "return")]
    /\ UNCHANGED <<serialVars, memVars, linkVars, ap_silent, halted, ghostVars>>

(***************************************************************************)
(* Start of the program (app_main)                                         *)
(***************************************************************************)
HeapStart == [obj |-> <<>>, fails |-> 0]

Idle == [pc |-> "idle", wq |-> <<>>, nwq |-> 0, ret |-> "idle", buff |-> NULL, i |-> 0]

\* The driver: the station's state, the requests made of it (connects: reconnect
\* requests in all, since: those made since a connected event was last handled),
\* the frames handed to it with the results it may give, and what it has delivered (frames received,
\* events) within the limits of a run.
RadioStart ==
    [mode |-> "sta", channel |-> 0, sta |-> "down", probe_tasks |-> 0, scans |-> 0,
     connects |-> 0, since |-> 0, reconfigs |-> 0,
     cfg |-> [ssid |-> <<>>, password |-> <<>>, authmode |-> "OPEN"],
     sent |-> <<>>, tx_errs |-> {ESP_OK},
     frames |-> 0, max_frames |-> 0, dsts |-> {}, lens |-> {RadioFrameLen}, rxframe |-> [n |-> 0],
     accepted |-> <<>>,
     events |-> 0, max_events |-> 0, evq |-> <<>>, ev |-> [kind |-> "none"],
     cyc |-> [scans |-> 0, misses |-> 0, down |-> FALSE, last |-> 0]]

HostStart ==
    [sent |-> 0, bytes |-> 0, frames |-> <<>>, tok |-> DefaultIntron, wire |-> 0,
     limit |-> MaxSends, lens |-> PacketLens,
     channels |-> SoftApChannels, unknown |-> {UnknownType}]

\* The tasks app_main creates, each at its entry; the event loop and the soft-AP
\* task wait.
TaskStart ==
    [t \in {RX, TXT, EGT, EVT, APT} |->
        CASE t = RX -> RdStart
          [] t = TXT -> [Idle EXCEPT !.pc = "start"]
          [] t = EGT -> [Idle EXCEPT !.pc = "queue_receive"]
          [] OTHER -> Idle]

FrStart == [type |-> -1, at |-> 0, src |-> 0, retAt |-> 0, mallocs |-> 0, queued |-> 0,
            nomem |-> FALSE, accepted |-> <<>>]

\* The state app_main leaves behind: queues created and empty, the lock free,
\* the default token, no association.  h and r say what the host and the driver
\* will do in the run.
Booted(h, r) ==
    /\ rx = <<>>
    /\ tx = <<>>
    /\ intron = DefaultIntron
    /\ uart_mtx = "none"
    /\ task = TaskStart
    /\ heap = HeapStart
    /\ uart_tx_queue = <<>>
    /\ wifi_egress_queue = <<>>
    /\ associated = FALSE
    /\ probe_in_progress = FALSE
    /\ last_inbound_seen = 0
    /\ beacon_quirk = FALSE
    /\ probe_retry_count = 0
    /\ s_retry_num = 0
    /\ ap_silent = FALSE
    /\ ticks = 0
    /\ radio = r
    /\ halted = "no"
    /\ host = h
    /\ rxcount = 0
    /\ win = <<>>
    /\ fr = FrStart
    /\ fault = {}

Init == Booted(HostStart, RadioStart)

\* The state once the station has associated (WIFI_EVENT_STA_CONNECTED handled at
\* second 0) and uart_tx_thread has announced the device: nothing has arrived on
\* either side yet; tx logs the writes from here on.  h and r say what the host
\* and the driver will do in the run.  AssociatedAt is the same state later in
\* the device's life: the clock reads now and the last inbound frame came at last.
AssociatedAt(h, r, now, last) ==
    /\ rx = <<>>
    /\ tx = <<>>
    /\ intron = DefaultIntron
    /\ uart_mtx = "none"
    /\ task = [TaskStart EXCEPT ![TXT].pc = "queue_receive"]
    /\ heap = HeapStart
    /\ uart_tx_queue = <<>>
    /\ wifi_egress_queue = <<>>
    /\ associated = TRUE
    /\ probe_in_progress = FALSE
    /\ last_inbound_seen = last
    /\ beacon_quirk = TRUE
    /\ probe_retry_count = 0
    /\ s_retry_num = 0
    /\ ap_silent = FALSE
    /\ ticks = now
    /\ radio = [r EXCEPT !.sta = "connected"]
    /\ halted = "no"
    /\ host = h
    /\ rxcount = 0
    /\ win = <<>>
    /\ fr = FrStart
    /\ fault = {}

Associated(h, r) == AssociatedAt(h, r, 0, 0)

InitAssociated == Associated([HostStart EXCEPT !.unknown = UnknownTypes], RadioStart)

ReadLoop ==
    \/ WaitForIntron
    \/ CheckOnlineStatus
    \/ CheckElapsed
    \/ ReadType
    \/ ReadMessageReturn
    \/ ReadPacketSize
    \/ ReadPacketData
    \/ PacketNoMem
    \/ ReadSsidLen
    \/ ReadSsid
    \/ ReadPassLen
    \/ ReadPassword
    \/ GetLinkStatus
    \/ ReadIntron
    \/ SoftApAlive
    \/ ReadChannel
    \/ StartSoftAp
    \/ SendTake(RX)
    \/ SendWrite(RX)
    \/ SendGive(RX)

\* The serial protocol alone: the host writes, the read loop decodes.
NextRx ==
    \/ HostStray
    \/ HostPacket
    \/ HostClientConfig
    \/ HostGetLink
    \/ HostIntron
    \/ HostSoftAp
    \/ HostUnknown
    \/ ReadLoop

SpecRx == InitAssociated /\ [][NextRx]_vars

(***************************************************************************)
(* Ingress: wifi_receive_cb -> uart_tx_queue -> uart_tx_thread             *)
(***************************************************************************)
BroadcastMac == <<255, 255, 255, 255, 255, 255>>
\* A multicast address whose last octet is even, and two unicast addresses of
\* other stations, one ending in an odd octet and one in an even octet.
MulticastMac == <<1, 0, 94, 0, 0, 2>>
ForeignOddMac == <<2, 17, 34, 51, 68, 87>>
ForeignEvenMac == <<2, 17, 34, 51, 68, 88>>
DstMacs == {StationMac, BroadcastMac, MulticastMac, ForeignOddMac, ForeignEvenMac}

\* The MAC filter of wifi_receive_cb: when bit 0 of buffer[5] is clear, all six
\* octets must equal mac[]; otherwise the frame passes.
MacFilterPasses(buffer) ==
    IF buffer[5 + 1] % 2 = 0
    THEN \A i \in 0..(MAC_LEN - 1) : buffer[i + 1] = StationMac[i + 1]
    ELSE TRUE

\* The objects of the n-th frame the driver delivers.
Eb(n) == <<"eb", n>>
RxBuffer(n) == <<"rx_buffer", n>>
ReceiveBuff(n) == <<"wifi_receive_buff", n>>

\* wifi_receive_cb(buffer, len, eb): the driver hands over a frame it allocated.
wifi_receive_cb ==
    /\ Running
    /\ Connected
    /\ radio.frames < radio.max_frames
    /\ \E dst \in radio.dsts, len \in radio.lens,
          outcome \in {"ok"} \cup (IF MayFail THEN {"no_buff"} ELSE {}) :
          LET n == radio.frames + 1
              \* the driver's storage: the frame's len bytes lie at its start; the
              \* filter reads six bytes of it whatever len is
              memory == Cat(Pack(dst), Fill(PayloadByte, IF len > MAC_LEN THEN len - MAC_LEN ELSE 0))
              buffer == RxTake(memory, len)
              buff == ReceiveBuff(n)
              h0 == Malloc(Malloc(heap, Eb(n), [len |-> len]),
                           RxBuffer(n), [bytes |-> buffer])
              m0 == [Mem EXCEPT !.heap = h0]
              cleanup(m) == Free(Free(m, Eb(n)), RxBuffer(n))
              pass == MacFilterPasses(Expand(RxTake(memory, MAC_LEN)))
              queued == pass /\ outcome = "ok" /\ EnqueueSucceeds(uart_tx_queue)
              m1 == IF ~pass THEN cleanup(m0)
                    ELSE IF outcome = "no_buff"
                    THEN cleanup([m0 EXCEPT !.heap = MallocFails(@)])
                    ELSE LET m == [m0 EXCEPT !.heap =
                                      Malloc(@, buff, [len |-> len, data |-> RxBuffer(n),
                                                       rx_buff |-> Eb(n)])]
                         IN IF queued THEN m ELSE free_wifi_receive_buff(m, buff)
          IN /\ outcome = "no_buff" => pass
             /\ heap' = m1.heap
             /\ fault' = m1.fault
             /\ uart_tx_queue' = IF queued THEN Append(uart_tx_queue, buff)
                                 ELSE uart_tx_queue
             /\ radio' = [radio EXCEPT !.frames = n,
                                       !.accepted = IF queued THEN Append(@, buff) ELSE @,
                                       !.rxframe = [n |-> n, dst |-> dst, pass |-> pass,
                                                    queued |-> queued,
                                                    full |-> ~EnqueueSucceeds(uart_tx_queue)]]
    /\ last_inbound_seen' = ticks
    /\ UNCHANGED <<serialVars, task, wifi_egress_queue, associated, probe_in_progress,
                   beacon_quirk, probe_retry_count, s_retry_num, ticks, ap_silent, halted,
                   host, rxcount, win, fr>>

\* A queue that hands out its newest item.
QueueFront_Newest(q) == q[Len(q)]

\* xQueueReceive delivers the item that has waited longest.
QueueFront(q) == Head(q)

\* A thread that starts by reporting the link instead.
StartupFrame_LinkStatus == link_status_frame(1)

\* send_device_info() before the loop.
StartupFrame == device_info_frame

\* uart_tx_thread starts with send_device_info.
UartTxStart ==
    /\ Running
    /\ task[TXT].pc = "start"
    /\ task' = [task EXCEPT ![TXT] = StartSend(@, StartupFrame, "queue_receive")]
    /\ UNCHANGED <<serialVars, memVars, linkVars, ap_silent, radio, halted, ghostVars>>

\* xQueueReceive(uart_tx_queue, &buff, 1000) delivers the oldest pointer; the
\* frame to write is taken from buff->len and buff->data.
UartTxReceive ==
    /\ Running
    /\ task[TXT].pc = "queue_receive"
    /\ uart_tx_queue # <<>>
    /\ LET buff == QueueFront(uart_tx_queue)
           live == buff \in Live(heap)
           data == IF live THEN heap.obj[buff].data ELSE NULL
           m == IF live THEN Touch(Mem, data) ELSE Touch(Mem, buff)
           len == IF live THEN heap.obj[buff].len ELSE 0
           bytes == IF data \in Live(heap) THEN heap.obj[data].bytes ELSE <<>>
       IN /\ uart_tx_queue' = Tail(uart_tx_queue)
          /\ fault' = m.fault
          /\ task' = [task EXCEPT ![TXT] = StartSend([@ EXCEPT !.buff = buff],
                                                     packet_frame(len, bytes), "free_buff")]
    /\ UNCHANGED <<serialVars, heap, wifi_egress_queue, linkVars, ap_silent, radio, halted,
                   host, rxcount, win, fr>>

\* free_wifi_receive_buff(buff) after the frame is written.
UartTxFree ==
    /\ Running
    /\ task[TXT].pc = "free_buff"
    /\ LET m == free_wifi_receive_buff(Mem, task[TXT].buff)
       IN /\ heap' = m.heap
          /\ fault' = m.fault
    /\ task' = [task EXCEPT ![TXT].pc = "queue_receive", ![TXT].buff = NULL]
    /\ UNCHANGED <<serialVars, uart_tx_queue, wifi_egress_queue, linkVars, ap_silent, radio,
                   halted, host, rxcount, win, fr>>

(***************************************************************************)
(* Egress: read_packet_message -> wifi_egress_queue -> wifi_egress_thread  *)
(***************************************************************************)
\* xQueueReceive(wifi_egress_queue, &buff, portMAX_DELAY)
EgressReceive ==
    /\ Running
    /\ task[EGT].pc = "queue_receive"
    /\ wifi_egress_queue # <<>>
    /\ wifi_egress_queue' = Tail(wifi_egress_queue)
    /\ task' = [task EXCEPT ![EGT].pc = "internal_tx", ![EGT].buff = QueueFront(wifi_egress_queue)]
    /\ UNCHANGED <<serialVars, heap, uart_tx_queue, linkVars, ap_silent, radio, halted,
                   ghostVars>>

\* A drain loop that offers a refused buffer to the driver again.
AfterTx_RetryOnError(err) == IF err # ESP_OK THEN "internal_tx" ELSE "free_buff"

\* if (err != ESP_OK) ESP_LOGI(...); free_wifi_send_buff(buff): whatever the
\* result, the loop goes on to the release.
AfterTx(err) == "free_buff"

\* esp_wifi_internal_tx(ESP_IF_WIFI_STA, buff->data, buff->len)
EgressTx ==
    /\ Running
    /\ task[EGT].pc = "internal_tx"
    /\ \E err \in radio.tx_errs :
          LET buff == task[EGT].buff
              live == buff \in Live(heap)
              data == IF live THEN heap.obj[buff].data ELSE NULL
              m == IF live THEN Touch(Mem, data) ELSE Touch(Mem, buff)
          IN /\ fault' = m.fault
             /\ radio' = [radio EXCEPT !.sent =
                             Append(@, [buff |-> buff,
                                        len |-> IF live THEN heap.obj[buff].len ELSE 0,
                                        bytes |-> IF data \in Live(heap)
                                                  THEN heap.obj[data].bytes ELSE <<>>,
                                        err |-> err])]
             /\ task' = [task EXCEPT ![EGT].pc = AfterTx(err)]
    /\ UNCHANGED <<serialVars, memVars, linkVars, ap_silent, halted, host, rxcount, win, fr>>

\* free_wifi_send_buff(buff)
EgressFree ==
    /\ Running
    /\ task[EGT].pc = "free_buff"
    /\ LET m == free_wifi_send_buff(Mem, task[EGT].buff)
       IN /\ heap' = m.heap
          /\ fault' = m.fault
    /\ task' = [task EXCEPT ![EGT].pc = "queue_receive", ![EGT].buff = NULL]
    /\ UNCHANGED <<serialVars, uart_tx_queue, wifi_egress_queue, linkVars, ap_silent, radio,
                   halted, host, rxcount, win, fr>>

(***************************************************************************)
(* Link health: the clock, the driver, probe_task and event_handler        *)
(***************************************************************************)
\* now_seconds() advances, through the wrap when it has come near it, and as far
\* as MaxTicks from 0.
Tick ==
    /\ Running
    /\ \E d \in {1, INACTIVE_PACKET_SECONDS} :
          /\ ticks > MaxTicks \/ ticks + d <= MaxTicks
          /\ ticks' = (ticks + d) % (LastSecond + 1)
    /\ UNCHANGED <<serialVars, task, memVars, associated, probe_in_progress, last_inbound_seen,
                   beacon_quirk, probe_retry_count, s_retry_num, ap_silent, radio, halted,
                   ghostVars>>

\* The driver posts an event to the default event loop.
Post(r, e) == [r EXCEPT !.evq = Append(@, e), !.events = @ + 1]
MayPost == Running /\ radio.mode = "sta" /\ radio.events < radio.max_events

\* The station loses its access point, or a connection attempt fails.
DriverDisconnects ==
    /\ MayPost
    /\ radio.sta \in {"connected", "connecting"}
    /\ radio' = Post([radio EXCEPT !.sta = "down"], [kind |-> "disconnected"])
    /\ UNCHANGED <<serialVars, task, memVars, linkVars, ap_silent, halted, ghostVars>>

\* A connection attempt (esp_wifi_connect) succeeds.
DriverConnects ==
    /\ MayPost
    /\ radio.sta = "connecting"
    /\ radio' = Post([radio EXCEPT !.sta = "connected"], [kind |-> "connected"])
    /\ UNCHANGED <<serialVars, task, memVars, linkVars, ap_silent, halted, ghostVars>>

\* The access point the station is associated with, as esp_wifi_sta_get_ap_info reports it.
\* SSIDs are the bytes of a 33-byte field up to its first NUL.
SsidNet == <<110, 101, 116>>
SsidOther == <<111>>
ap_info == [bssid |-> "ap", ssid |-> SsidNet]

\* Records a scan may return: the associated AP, an AP with its SSID under
\* another BSSID, a hidden one, a foreign one.
ApSame == [bssid |-> "ap", ssid |-> SsidNet]
ApTwin == [bssid |-> "twin", ssid |-> SsidNet]
ApHidden == [bssid |-> "hidden", ssid |-> <<>>]
ApForeign == [bssid |-> "other", ssid |-> SsidOther]
ScanOutcomes ==
    {[status |-> 0, aps |-> l] :
        l \in {<<>>, <<ApForeign>>, <<ApForeign, ApSame>>, <<ApTwin>>, <<ApHidden, ApForeign>>}}
    \cup {[status |-> 1, aps |-> <<ApSame>>]}

\* A scan requested with esp_wifi_scan_start completes.
DriverScanDone ==
    /\ Running
    /\ radio.scans > 0
    /\ \E o \in ScanOutcomes :
          radio' = [radio EXCEPT !.scans = @ - 1,
                                 !.evq = Append(@, [kind |-> "scan_done", status |-> o.status,
                                                    aps |-> o.aps])]
    /\ UNCHANGED <<serialVars, task, memVars, linkVars, ap_silent, halted, ghostVars>>

\* probe_task: ESP_ERROR_CHECK(esp_wifi_scan_start(&config, false)); the driver
\* refuses a scan while the station is connecting.
probe_task ==
    /\ Running
    /\ radio.probe_tasks > 0
    /\ IF radio.sta = "connecting"
       THEN /\ halted' = "abort"
            /\ radio' = [radio EXCEPT !.probe_tasks = @ - 1]
       ELSE /\ radio' = [radio EXCEPT !.probe_tasks = @ - 1, !.scans = @ + 1,
                                      !.cyc.scans = @ + 1]
            /\ UNCHANGED halted
    /\ UNCHANGED <<serialVars, task, memVars, linkVars, ap_silent, ghostVars>>

Ev == task[EVT]
NextEvent(kind) == Running /\ Ev.pc = "idle" /\ radio.evq # <<>> /\ Head(radio.evq).kind = kind
\* The writes the event handler has made to the serial link.
IsEvtWrite(e) == e.by = EVT
EvtLog == SelectSeq(tx, IsEvtWrite)

\* The handler is entered with the oldest event; ev keeps it, with the number of
\* writes the handler has made and of reconnects it has requested so far.
Taken(r) ==
    [r EXCEPT !.evq = Tail(@),
              !.ev = Head(radio.evq) @@ [written |-> Len(EvtLog),
                                         connects |-> radio.connects]]

\* WIFI_EVENT_STA_DISCONNECTED: associated = false; send_link_status(0); ...
EvDisconnected ==
    /\ NextEvent("disconnected")
    /\ associated' = FALSE
    /\ radio' = Taken(radio)
    /\ task' = [task EXCEPT ![EVT] = StartSend(@, link_status_frame(0), "disconnected_retry")]
    /\ UNCHANGED <<serialVars, memVars, probe_in_progress, last_inbound_seen, beacon_quirk,
                   probe_retry_count, s_retry_num, ticks, ap_silent, halted, ghostVars>>

\* A handler that never asks for a reconnect.
MayReconnect_Never(n) == FALSE

\* s_retry_num < CONFIG_ESP_MAXIMUM_RETRY
MayReconnect(n) == n < CONFIG_ESP_MAXIMUM_RETRY

\* ... if (s_retry_num < CONFIG_ESP_MAXIMUM_RETRY) { esp_wifi_connect(); ...
\* (the driver connects only in station mode)
EvDisconnectedRetry ==
    /\ Running
    /\ Ev.pc = "disconnected_retry"
    /\ IF MayReconnect(s_retry_num)
       THEN /\ radio' = [radio EXCEPT !.sta = IF radio.mode = "sta" /\ @ = "down"
                                             THEN "connecting" ELSE @,
                                      !.connects = @ + 1,
                                      !.since = @ + 1]
            /\ task' = [task EXCEPT ![EVT].pc = "retry_load"]
       ELSE /\ task' = [task EXCEPT ![EVT].pc = "idle"]
            /\ UNCHANGED radio
    /\ UNCHANGED <<serialVars, memVars, linkVars, ap_silent, halted, ghostVars>>

\* ... s_retry_num++; }  The counter is a plain int that start_softap writes
\* from the read loop's task: the increment is a load and a store.
EvRetryLoad ==
    /\ Running
    /\ Ev.pc = "retry_load"
    /\ task' = [task EXCEPT ![EVT].pc = "retry_store", ![EVT].i = s_retry_num]
    /\ UNCHANGED <<serialVars, memVars, linkVars, ap_silent, radio, halted, ghostVars>>

EvRetryStore ==
    /\ Running
    /\ Ev.pc = "retry_store"
    /\ s_retry_num' = Ev.i + 1
    /\ task' = [task EXCEPT ![EVT].pc = "idle", ![EVT].i = 0]
    /\ UNCHANGED <<serialVars, memVars, associated, probe_in_progress, last_inbound_seen,
                   beacon_quirk, probe_retry_count, ticks, ap_silent, radio, halted, ghostVars>>

\* WIFI_EVENT_STA_START: esp_wifi_set_protocol and no more when the driver's
\* protocol is not uart_nic_protocol (a setting of the driver, either outcome),
\* esp_wifi_connect() otherwise.
EvStaStart ==
    /\ NextEvent("sta_start")
    /\ \E protocol_set \in BOOLEAN :
          radio' = [Taken(radio) EXCEPT !.sta = IF protocol_set /\ radio.mode = "sta"
                                                THEN "connecting" ELSE @]
    /\ UNCHANGED <<serialVars, task, memVars, linkVars, ap_silent, halted, ghostVars>>

\* WIFI_EVENT_STA_CONNECTED: the flags, then send_link_status(1) ...
EvConnected ==
    /\ NextEvent("connected")
    /\ last_inbound_seen' = ticks
    /\ associated' = TRUE
    /\ beacon_quirk' = TRUE
    /\ radio' = Taken(radio)
    /\ task' = [task EXCEPT ![EVT] = StartSend(@, link_status_frame(1), "connected_done")]
    /\ UNCHANGED <<serialVars, memVars, probe_in_progress, probe_retry_count, s_retry_num,
                   ticks, ap_silent, halted, ghostVars>>

\* ... s_retry_num = 0; esp_wifi_set_inactive_time.
EvConnectedDone ==
    /\ Running
    /\ Ev.pc = "connected_done"
    /\ s_retry_num' = 0
    /\ radio' = [radio EXCEPT !.since = 0]
    /\ task' = [task EXCEPT ![EVT].pc = "idle"]
    /\ UNCHANGED <<serialVars, memVars, associated, probe_in_progress, last_inbound_seen,
                   beacon_quirk, probe_retry_count, ticks, ap_silent, halted, ghostVars>>

probe_max_reties == 3

\* A scan that misses is repeated when the counter, read before its increment,
\* is below probe_max_reties.
ProbeRetry_PreIncrement(count) == count + 1 < probe_max_reties
\* A scan that misses is repeated once more.
ProbeRetry_Inclusive(count) == count <= probe_max_reties
ProbeRetry(count) == count < probe_max_reties

\* The two passes over the scan records.
BssidPass(aps) == \E i \in 1..Len(aps) : aps[i].bssid = ap_info.bssid
\* ssid[i - 1] of a record, and strncmp(a, b, n): 0 when the two fields agree
\* up to the first NUL of a or over n bytes.
FieldByte(ssid, i) == IF i <= Len(ssid) THEN ssid[i] ELSE 0
strncmp(a, b, n) ==
    IF \A i \in 1..n : (\A j \in 1..(i - 1) : FieldByte(a, j) # 0)
                           => FieldByte(a, i) = FieldByte(b, i)
    THEN 0 ELSE 1
SsidCompareLen == 32

SsidPass(aps) ==
    \E i \in 1..Len(aps) :
       /\ FieldByte(ap_info.ssid, 1) # 0 /\ FieldByte(aps[i].ssid, 1) # 0
       /\ strncmp(ap_info.ssid, aps[i].ssid, SsidCompareLen) = 0

\* A second pass made whether or not beacon_quirk is still set.
SecondPass_Always(quirk, found) == ~found

\* if (beacon_quirk && !found)
SecondPass(quirk, found) == quirk /\ ~found

\* WIFI_EVENT_SCAN_DONE
EvScanDone ==
    /\ NextEvent("scan_done")
    /\ LET e == Head(radio.evq)
           scanned == e.status = 0 /\ Len(e.aps) > 0
           bssid == scanned /\ BssidPass(e.aps)
           found == bssid \/ (scanned /\ SecondPass(beacon_quirk, bssid) /\ SsidPass(e.aps))
       IN IF ~Connected
          THEN \* ESP_ERROR_CHECK(esp_wifi_sta_get_ap_info(&ap_info))
               /\ halted' = "abort"
               /\ radio' = Taken(radio)
               /\ UNCHANGED <<task, probe_in_progress, last_inbound_seen, beacon_quirk,
                              probe_retry_count>>
          ELSE /\ beacon_quirk' = IF bssid THEN FALSE ELSE beacon_quirk
               /\ UNCHANGED halted
               /\ IF found
                  THEN /\ probe_in_progress' = FALSE
                       /\ last_inbound_seen' = ticks
                       /\ radio' = Taken(radio)
                       /\ UNCHANGED <<task, probe_retry_count>>
                  ELSE /\ probe_retry_count' = (probe_retry_count + 1) % 256
                       /\ IF ProbeRetry(probe_retry_count)
                          THEN /\ radio' = [Taken(radio) EXCEPT !.probe_tasks = @ + 1,
                                                                !.cyc.misses = @ + 1]
                               /\ UNCHANGED task
                          ELSE /\ radio' = [Taken(radio) EXCEPT !.cyc.misses = @ + 1]
                               /\ task' = [task EXCEPT ![EVT] =
                                              StartSend(@, link_status_frame(0), "probe_failed")]
                       /\ UNCHANGED <<probe_in_progress, last_inbound_seen>>
    /\ UNCHANGED <<serialVars, memVars, associated, s_retry_num, ticks, ap_silent, ghostVars>>

\* A failed cycle that leaves the probe marked as in progress.
AfterProbeFailed_StillProbing(probing) == probing

\* probe_in_progress = false;
AfterProbeFailed(probing) == FALSE

\* ... send_link_status(0); probe_in_progress = false;
EvProbeFailed ==
    /\ Running
    /\ Ev.pc = "probe_failed"
    /\ probe_in_progress' = AfterProbeFailed(probe_in_progress)
    /\ radio' = [radio EXCEPT !.cyc.down = TRUE]
    /\ task' = [task EXCEPT ![EVT].pc = "idle"]
    /\ UNCHANGED <<serialVars, memVars, associated, last_inbound_seen, beacon_quirk,
                   probe_retry_count, s_retry_num, ticks, ap_silent, halted, ghostVars>>

\* The link-health machine: the host's frames drive the periodic check, the
\* clock runs, the driver completes scans and loses and regains the access point.
InitLink ==
    Associated([HostStart EXCEPT !.limit = MaxChecks],
               [RadioStart EXCEPT !.max_events = MaxEvents])

NextLink ==
    \/ HostGetLink
    \/ HostUnknown
    \/ WaitForIntron
    \/ CheckOnlineStatus
    \/ CheckElapsed
    \/ ReadType
    \/ ReadMessageReturn
    \/ GetLinkStatus
    \/ SendTake(RX)
    \/ SendWrite(RX)
    \/ SendGive(RX)
    \/ Tick
    \/ probe_task
    \/ DriverScanDone
    \/ DriverDisconnects
    \/ DriverConnects
    \/ EvDisconnected
    \/ EvDisconnectedRetry
    \/ EvRetryLoad
    \/ EvRetryStore
    \/ EvConnected
    \/ EvConnectedDone
    \/ EvScanDone
    \/ EvProbeFailed
    \/ SendTake(EVT)
    \/ SendWrite(EVT)
    \/ SendGive(EVT)

SpecLink == InitLink /\ [][NextLink]_vars

(***************************************************************************)
(* The diagnostic access point: ap_event_handler and ap_task               *)
(***************************************************************************)
\* WIFI_EVENT_AP_START: send_alive(40) ...
EvApStart ==
    /\ NextEvent("ap_start")
    /\ radio' = Taken(radio)
    /\ task' = [task EXCEPT ![EVT] = StartSend(@, alive_frame(40), "ap_started")]
    /\ UNCHANGED <<serialVars, memVars, linkVars, ap_silent, halted, ghostVars>>

\* ... if (!ap_silent) xTaskCreate(&ap_task, ...); one soft-AP task is followed,
\* a task already created runs on.
EvApStarted ==
    /\ Running
    /\ Ev.pc = "ap_started"
    /\ task' = [task EXCEPT ![EVT].pc = "idle",
                            ![APT].pc = IF ap_silent \/ @ # "idle" THEN @ ELSE "ap_task"]
    /\ UNCHANGED <<serialVars, memVars, linkVars, ap_silent, radio, halted, ghostVars>>

\* ap_task: every hundredth beacon it sends, send_alive(41).
ApTaskAlive ==
    /\ Running
    /\ task[APT].pc = "ap_task"
    /\ task[APT].i < MaxAlive
    /\ task' = [task EXCEPT ![APT] = StartSend([@ EXCEPT !.i = @ + 1], alive_frame(41), "ap_task")]
    /\ UNCHANGED <<serialVars, memVars, linkVars, ap_silent, radio, halted, ghostVars>>

\* The serial writers side by side: the read loop answering the host and
\* replacing the token, uart_tx_thread announcing the device and forwarding
\* received frames, the event handlers and the soft-AP task: from the program's
\* start, where the host may ask for the access point, or with the station
\* associated, where frames arrive and the link is lost.
InitTx ==
    \E boot \in BOOLEAN :
       IF boot
       THEN Booted([HostStart EXCEPT !.limit = MaxTxFrames], RadioStart)
       ELSE Associated([HostStart EXCEPT !.limit = MaxTxFrames, !.channels = {}],
                       [RadioStart EXCEPT !.max_frames = MaxTxPackets,
                                          !.dsts = {BroadcastMac},
                                          !.max_events = MaxTxEvents])

NextTx ==
    \/ HostGetLink
    \/ HostIntron
    \/ WaitForIntron
    \/ CheckOnlineStatus
    \/ CheckElapsed
    \/ ReadType
    \/ ReadMessageReturn
    \/ GetLinkStatus
    \/ ReadIntron
    \/ SendTake(RX)
    \/ SendWrite(RX)
    \/ SendGive(RX)
    \/ UartTxStart
    \/ wifi_receive_cb
    \/ UartTxReceive
    \/ UartTxFree
    \/ SendTake(TXT)
    \/ SendWrite(TXT)
    \/ SendGive(TXT)
    \/ DriverDisconnects
    \/ EvDisconnected
    \/ EvDisconnectedRetry
    \/ EvRetryLoad
    \/ EvRetryStore
    \/ SendTake(EVT)
    \/ SendWrite(EVT)
    \/ SendGive(EVT)
    \/ HostSoftAp
    \/ SoftApAlive
    \/ ReadChannel
    \/ StartSoftAp
    \/ EvApStart
    \/ EvApStarted
    \/ ApTaskAlive
    \/ SendTake(APT)
    \/ SendWrite(APT)
    \/ SendGive(APT)

SpecTx == InitTx /\ [][NextTx]_vars

\* The four writers scheduled fairly: a task that can go on inside a send_*
\* function does so, and a task waiting for a free lock gets it.
InitMutex ==
    \E boot \in BOOLEAN :
       IF boot
       THEN Booted([HostStart EXCEPT !.limit = MaxMutexFrames], RadioStart)
       ELSE Associated([HostStart EXCEPT !.limit = MaxMutexFrames, !.channels = {}],
                       [RadioStart EXCEPT !.max_frames = MaxTxPackets,
                                          !.dsts = {BroadcastMac},
                                          !.max_events = MaxTxEvents])

SpecMutex ==
    /\ InitMutex
    /\ [][NextTx]_vars
    /\ \A t \in {RX, TXT, EVT, APT} : WF_vars(SendStep(t))

\* The two pipelines: a burst of Packet frames from the host that can fill the
\* egress queue, a burst of received frames that can fill the ingress queue, or
\* a few frames of every kind on both sides.
InitBuf ==
    \E run \in {"egress_burst", "ingress_burst", "mixed"} :
       Associated([HostStart EXCEPT !.limit = CASE run = "egress_burst" -> QueueLength + MaxExtra
                                                [] run = "ingress_burst" -> 0
                                                [] OTHER -> MaxMixed,
                                    !.lens = IF run = "mixed" THEN {0, 2} ELSE {2}],
                  [RadioStart EXCEPT !.max_frames = CASE run = "ingress_burst" -> QueueLength + MaxExtra
                                                      [] run = "egress_burst" -> 0
                                                      [] OTHER -> MaxMixed,
                                     !.dsts = IF run = "mixed" THEN DstMacs ELSE {BroadcastMac}])

NextBuf ==
    \/ HostPacket
    \/ WaitForIntron
    \/ CheckOnlineStatus
    \/ CheckElapsed
    \/ ReadType
    \/ ReadMessageReturn
    \/ ReadPacketSize
    \/ ReadPacketData
    \/ PacketNoMem
    \/ wifi_receive_cb
    \/ UartTxReceive
    \/ SendTake(TXT)
    \/ SendWrite(TXT)
    \/ SendGive(TXT)
    \/ UartTxFree
    \/ EgressReceive
    \/ EgressTx
    \/ EgressFree

SpecBuf == InitBuf /\ [][NextBuf]_vars

\* The two bursts with the consumers scheduled fairly: uart_tx_thread (priority
\* 14) and wifi_egress_thread (priority 12) run above every producer, so a step
\* either of them can take is taken.
InitFifo ==
    \E run \in {"egress_burst", "ingress_burst"} :
       Associated([HostStart EXCEPT !.limit = IF run = "egress_burst"
                                              THEN QueueLength + MaxExtra ELSE 0,
                                    !.lens = {2}],
                  [RadioStart EXCEPT !.max_frames = IF run = "ingress_burst"
                                                    THEN QueueLength + MaxExtra ELSE 0,
                                     !.dsts = {BroadcastMac}])

\* A step of uart_tx_thread's loop, and one of wifi_egress_thread's: at most one
\* of the disjuncts is enabled at a time, the one at the task's position.
UartTxStep == UartTxReceive \/ SendTake(TXT) \/ SendWrite(TXT) \/ SendGive(TXT) \/ UartTxFree
EgressStep == EgressReceive \/ EgressTx \/ EgressFree

SpecFifo ==
    /\ InitFifo
    /\ [][NextBuf]_vars
    /\ WF_vars(UartTxStep)
    /\ WF_vars(EgressStep)


\* The egress path end to end: the host writes Packet frames, fewer than the
\* queue holds; the read loop buffers and queues them; wifi_egress_thread, which
\* runs whenever it can, hands them to the driver, which accepts or refuses.
InitEgress ==
    Associated([HostStart EXCEPT !.limit = MaxEgress, !.lens = EgressLens],
               [RadioStart EXCEPT !.tx_errs = {ESP_OK, ESP_FAIL}])

NextEgress ==
    \/ HostPacket
    \/ WaitForIntron
    \/ CheckOnlineStatus
    \/ CheckElapsed
    \/ ReadType
    \/ ReadMessageReturn
    \/ ReadPacketSize
    \/ ReadPacketData
    \/ PacketNoMem
    \/ EgressReceive
    \/ EgressTx
    \/ EgressFree

SpecEgress ==
    /\ InitEgress
    /\ [][NextEgress]_vars
    /\ WF_vars(EgressReceive)
    /\ WF_vars(EgressTx)
    /\ WF_vars(EgressFree)

\* The start of the program: the host sends the credentials at once, the station
\* starts, connects and receives frames while uart_tx_thread may not have
\* written its first byte yet.
InitBoot ==
    Booted([HostStart EXCEPT !.limit = 1],
           [RadioStart EXCEPT !.max_frames = MaxBootFrames, !.dsts = {BroadcastMac},
                              !.max_events = MaxBootEvents])

NextBoot ==
    \/ HostClientConfig
    \/ WaitForIntron
    \/ CheckOnlineStatus
    \/ ReadType
    \/ ReadMessageReturn
    \/ ReadSsidLen
    \/ ReadSsid
    \/ ReadPassLen
    \/ ReadPassword
    \/ SendTake(RX)
    \/ SendWrite(RX)
    \/ SendGive(RX)
    \/ EvStaStart
    \/ DriverConnects
    \/ EvConnected
    \/ EvConnectedDone
    \/ SendTake(EVT)
    \/ SendWrite(EVT)
    \/ SendGive(EVT)
    \/ wifi_receive_cb
    \/ UartTxStart
    \/ UartTxReceive
    \/ SendTake(TXT)
    \/ SendWrite(TXT)
    \/ SendGive(TXT)
    \/ UartTxFree

SpecBoot == InitBoot /\ [][NextBoot]_vars

\* The clock near its wrap: the device has been up until ClockLead seconds before
\* the clock reads 0 again, and the last inbound frame came then or LastLead
\* seconds earlier.
InitClock ==
    \E last \in {LastSecond - ClockLead - LastLead, LastSecond - ClockLead} :
        AssociatedAt([HostStart EXCEPT !.limit = MaxChecks],
                     [RadioStart EXCEPT !.max_events = MaxClockEvents],
                     LastSecond - ClockLead, last)

NextClock ==
    \/ HostUnknown
    \/ WaitForIntron
    \/ CheckOnlineStatus
    \/ CheckElapsed
    \/ ReadType
    \/ ReadMessageReturn
    \/ Tick
    \/ probe_task
    \/ DriverScanDone
    \/ DriverDisconnects
    \/ EvDisconnected
    \/ EvDisconnectedRetry
    \/ EvRetryLoad
    \/ EvRetryStore
    \/ EvScanDone
    \/ EvProbeFailed
    \/ SendTake(EVT)
    \/ SendWrite(EVT)
    \/ SendGive(EVT)

SpecClock == InitClock /\ [][NextClock]_vars

\* One probe cycle with the tasks it depends on scheduled fairly: the probe task
\* runs once created, the driver completes every scan it has started, and the
\* event loop handles every event posted to it.
InitProbe ==
    Associated([HostStart EXCEPT !.limit = MaxProbeChecks],
               [RadioStart EXCEPT !.max_events = MaxEvents])

EventStep ==
    \/ EvDisconnected
    \/ EvDisconnectedRetry
    \/ EvRetryLoad
    \/ EvRetryStore
    \/ EvConnected
    \/ EvConnectedDone
    \/ EvScanDone
    \/ EvProbeFailed
    \/ SendTake(EVT)
    \/ SendWrite(EVT)
    \/ SendGive(EVT)

SpecProbe ==
    /\ InitProbe
    /\ [][NextLink]_vars
    /\ WF_vars(SendStep(RX))
    /\ WF_vars(probe_task)
    /\ WF_vars(DriverScanDone)
    /\ WF_vars(EventStep)

\* Reconnecting: the station loses its access point, connection attempts fail or
\* succeed, and the host may ask for the diagnostic access point, which sets
\* s_retry_num from the read loop's task.
InitRetry ==
    Associated([HostStart EXCEPT !.limit = 1, !.channels = {1}],
               [RadioStart EXCEPT !.max_events = MaxRetryEvents])

NextRetry ==
    \/ HostSoftAp
    \/ WaitForIntron
    \/ CheckOnlineStatus
    \/ CheckElapsed
    \/ ReadType
    \/ ReadMessageReturn
    \/ SoftApAlive
    \/ ReadChannel
    \/ StartSoftAp
    \/ SendTake(RX)
    \/ SendWrite(RX)
    \/ SendGive(RX)
    \/ DriverDisconnects
    \/ DriverConnects
    \/ EvDisconnected
    \/ EvDisconnectedRetry
    \/ EvRetryLoad
    \/ EvRetryStore
    \/ EvConnected
    \/ EvConnectedDone
    \/ EvApStart
    \/ EvApStarted
    \/ SendTake(EVT)
    \/ SendWrite(EVT)
    \/ SendGive(EVT)
    \/ ApTaskAlive
    \/ SendTake(APT)
    \/ SendWrite(APT)
    \/ SendGive(APT)

SpecRetry == InitRetry /\ [][NextRetry]_vars

(***************************************************************************)
(* The wire format there and back: the frames uart_tx_thread writes are    *)
(* fed to the read loop                                                    *)
(***************************************************************************)
\* Lengths of the frames the radio delivers in this run.
LoopLens == {0, 1, RadioFrameLen, 256, MaxPacketLen}

\* The bytes of a sequence of writes.
RECURSIVE WireBytes(_)
WireBytes(ws) == IF ws = <<>> THEN <<>> ELSE Cat(ws[1].bytes, WireBytes(Tail(ws)))

\* The writes of the frame written last.
LastFrame ==
    LET start == CHOOSE i \in 1..Len(tx) : tx[i].first /\ \A j \in (i + 1)..Len(tx) : ~tx[j].first
    IN SubSeq(tx, start, Len(tx))

\* The serial output is connected to the serial input: the Packet frame
\* uart_tx_thread has just written arrives at the read loop.  host.frames keeps
\* what the frame was made from (buff->len, buff->data), where its type byte
\* lies in the stream and where the written bytes end.
Loopback ==
    /\ Running
    /\ task[TXT].pc = "free_buff"
    /\ host.wire # Len(tx)
    /\ LET buff == heap.obj[task[TXT].buff]
           bytes == WireBytes(LastFrame)
       IN /\ rx' = Cat(rx, bytes)
          /\ host' = [host EXCEPT !.wire = Len(tx),
                                  !.sent = @ + 1,
                                  !.bytes = @ + RxLen(bytes),
                                  !.frames = Append(@, [type |-> MSG_PACKET,
                                                        at |-> host.bytes + IntronLen,
                                                        end |-> host.bytes + RxLen(bytes),
                                                        tok |-> host.tok,
                                                        len |-> buff.len,
                                                        data |-> heap.obj[buff.data].bytes])]
    /\ UNCHANGED <<tx, intron, uart_mtx, task, memVars, linkVars, ap_silent, radio, halted,
                   rxcount, win, fr, fault>>

InitLoop ==
    Associated([HostStart EXCEPT !.limit = 0],
               [RadioStart EXCEPT !.max_frames = MaxLoop,
                                  !.dsts = {BroadcastMac},
                                  !.lens = LoopLens])

NextLoop ==
    \/ wifi_receive_cb
    \/ UartTxReceive
    \/ SendTake(TXT)
    \/ SendWrite(TXT)
    \/ SendGive(TXT)
    \/ UartTxFree
    \/ Loopback
    \/ WaitForIntron
    \/ CheckOnlineStatus
    \/ CheckElapsed
    \/ ReadType
    \/ ReadMessageReturn
    \/ ReadPacketSize
    \/ ReadPacketData
    \/ PacketNoMem

SpecLoop == InitLoop /\ [][NextLoop]_vars

(***************************************************************************)
(* Claims                                                                  *)
(***************************************************************************)
WinBytes == [j \in 1..Len(win) |-> win[j].b]

\* C1 (as claimed): wait_for_intron returns exactly after the last byte of the first
\* occurrence of the token in the bytes it consumes: while it is still scanning, the
\* bytes it consumed last are never the token, and when it has returned they are.
C1_StopsAtFirstOccurrence ==
    /\ Rd.pc = "wait_for_intron" => WinBytes # intron
    /\ Rd.pc = "check_online_status" => WinBytes = intron

\* C1 (amended): wait_for_intron returns only right after consuming the token, keeps
\* only the cursor (the cursor is the length of the token prefix just consumed), and
\* stops at the end of the first occurrence of the token whose first byte it reads
\* with the cursor at 0; an occurrence it has passed began with the cursor not at 0.
C1_StopsAtOccurrenceFromCursorZero ==
    /\ Rd.pc = "check_online_status" => WinBytes = intron /\ win[1].at = 0
    /\ Rd.pc = "wait_for_intron" /\ WinBytes = intron => win[1].at # 0
    /\ Rd.pc = "wait_for_intron" =>
          /\ Rd.pos < IntronLen
          /\ Rd.pos <= Len(win)
          /\ \A j \in 1..Rd.pos : win[Len(win) - Rd.pos + j].b = intron[j]

\* C1's case: the scanner has returned after consuming bytes that precede the token.
C1_Witness ==
    /\ Rd.pc = "check_online_status"
    /\ win[1].at = 0
    /\ \E i \in 1..Len(host.frames) : rxcount = host.frames[i].at /\ host.bytes > rxcount + 1
    /\ rxcount > IntronLen

\* The host frame the read loop last dispatched on, when the type byte it read was one.
Src == host.frames[fr.src]
Returned == fr.src # 0 /\ fr.retAt # -1

\* C9: a Packet frame declaring more than 2000 bytes allocates and enqueues nothing and
\* has exactly its declared payload consumed when read_message returns to resynchronise.
C9_OversizePacketDrained ==
    (Returned /\ fr.type = MSG_PACKET /\ Src.type = MSG_PACKET /\ Src.len > MaxPacketLen)
        => /\ fr.mallocs = 0
           /\ fr.queued = 0
           /\ fr.retAt = Src.end

\* C10: a ClientConfig frame has exactly 1 + ssid_len + 1 + pass_len bytes consumed when
\* read_message returns, whatever the declared lengths.
C10_ClientConfigDrained ==
    (Returned /\ fr.type = MSG_CLIENTCONFIG /\ Src.type = MSG_CLIENTCONFIG)
        => fr.retAt = Src.at + 1 + 1 + Src.ssid_len + 1 + Src.pass_len

(***************************************************************************)
(* Buffers and queues                                                      *)
(***************************************************************************)
BuffHolders == {RX, TXT, EGT}
IsWrapper(o) == o[1] \in {"wifi_send_buff", "wifi_receive_buff"}

\* How many queue slots and tasks hold pointer o.
Owners(o) ==
    Cardinality({i \in 1..Len(uart_tx_queue) : uart_tx_queue[i] = o})
    + Cardinality({i \in 1..Len(wifi_egress_queue) : wifi_egress_queue[i] = o})
    + Cardinality({t \in BuffHolders : task[t].buff = o})

\* The live wrappers whose data or rx_buff pointer is o.
WrappersOf(o) ==
    {w \in Live(heap) : /\ IsWrapper(w)
                        /\ \/ heap.obj[w].data = o
                           \/ (w[1] = "wifi_receive_buff" /\ heap.obj[w].rx_buff = o)}

Referenced ==
    {uart_tx_queue[i] : i \in 1..Len(uart_tx_queue)}
    \cup {wifi_egress_queue[i] : i \in 1..Len(wifi_egress_queue)}
    \cup ({task[t].buff : t \in BuffHolders} \ {NULL})

\* C4: every packet buffer is released exactly once on every path, none is
\* accessed after its release, and at any moment a buffer has exactly one owner:
\* one task or one queue slot.  So no object is freed twice or used after free,
\* every pointer held or queued is live, and every live object is owned once
\* (a wrapper by a task or a slot, payload storage by one live wrapper).
C4_BuffersReleasedOnceSingleOwner ==
    /\ fault = {}
    /\ Referenced \subseteq Live(heap)
    /\ \A o \in Live(heap) :
          IF IsWrapper(o) THEN Owners(o) = 1 ELSE Cardinality(WrappersOf(o)) = 1

\* The egress consumer has transmitted and released a buffer, the egress queue
\* is full, and the read loop holds a further buffer it is filling.
C4_Witness ==
    /\ radio.sent # <<>>
    /\ task[EGT].pc = "queue_receive"
    /\ radio.sent[1].buff \notin Live(heap)
    /\ Len(wifi_egress_queue) = QueueLength
    /\ task[RX].buff # NULL

\* The step in which read_packet_message offers a filled buffer to the egress queue.
EgressOffer == Rd.pc = "read_packet_data" /\ Rd'.pc = "return"

\* The step in which wifi_receive_cb offers a wrapper to the ingress queue.
IngressOffer ==
    /\ radio'.frames = radio.frames + 1
    /\ radio'.rxframe.pass
    /\ heap'.fails = heap.fails

\* C5: an enqueue attempted on a queue holding QueueLength items fails at once
\* (the producer goes on), leaves the queue as it was, and the producer releases
\* the offered buffer, wrapper and payload, exactly once.
C5_FullQueueDropsAndReleases ==
    [][/\ (EgressOffer /\ Len(wifi_egress_queue) = QueueLength)
            => /\ wifi_egress_queue' = wifi_egress_queue
               /\ {Rd.buff, heap.obj[Rd.buff].data} \subseteq Live(heap)
               /\ {Rd.buff, heap.obj[Rd.buff].data} \cap Live(heap') = {}
               /\ fault' = fault
       /\ (IngressOffer /\ Len(uart_tx_queue) = QueueLength)
            => /\ uart_tx_queue' = uart_tx_queue
               /\ Live(heap') = Live(heap)
               /\ fault' = fault]_vars

\* The read loop has just had a filled buffer refused by the full egress queue.
C5_Witness ==
    /\ Rd.pc = "return"
    /\ fr.type = MSG_PACKET
    /\ fr.mallocs = 2
    /\ fr.queued = 0
    /\ Len(wifi_egress_queue) = QueueLength
    /\ SendBuff(fr.at) \notin Live(heap)

\* The group bit of a destination address: the least-significant bit of its first octet.
GroupBit(dst) == dst[1] % 2

\* C6: a received frame whose destination has the group bit clear and is not
\* the station's address is never enqueued; a frame whose group bit is set or
\* whose destination is the station's address passes the MAC filter and is
\* offered to the ingress queue.
C6_MacFilter ==
    radio.rxframe.n > 0 =>
       LET dst == radio.rxframe.dst
       IN /\ (GroupBit(dst) = 0 /\ dst # StationMac) => ~radio.rxframe.queued
          /\ (GroupBit(dst) = 1 \/ dst = StationMac) => radio.rxframe.pass

(***************************************************************************)
(* Link health                                                             *)
(***************************************************************************)
\* The step in which check_online_status evaluates the elapsed time.
CheckStep == Rd.pc = "check_elapsed" /\ Rd'.pc = "read_type"

\* The step in which event_handler takes a scan-done event that succeeded and
\* whose records hold the BSSID of the associated access point.
BssidMatchStep ==
    /\ Ev.pc = "idle"
    /\ radio.evq # <<>>
    /\ radio'.evq = Tail(radio.evq)
    /\ Head(radio.evq).kind = "scan_done"
    /\ Head(radio.evq).status = 0
    /\ \E i \in 1..Len(Head(radio.evq).aps) : Head(radio.evq).aps[i].bssid = ap_info.bssid
    /\ Connected

\* C7: with associated set, no probe running and more than 5 s since the last
\* inbound frame, the periodic check sets probe_in_progress and creates one
\* probe task, which makes one scan request; the scan-done event that succeeded
\* and holds the associated BSSID leaves probe_in_progress false, associated
\* true, beacon_quirk false and last_inbound_seen at the current time.
C7_ProbeStartsAndBssidMatchEnds ==
    /\ [][(CheckStep /\ associated /\ ~probe_in_progress
             /\ ticks - last_inbound_seen > INACTIVE_PACKET_SECONDS)
           => /\ probe_in_progress'
              /\ probe_retry_count' = 0
              /\ radio'.probe_tasks = radio.probe_tasks + 1
              /\ radio'.scans = radio.scans
              /\ radio'.cyc.scans = 0]_vars
    /\ []((Running /\ probe_in_progress /\ radio.cyc.misses = 0)
           => radio.cyc.scans + radio.probe_tasks = 1)
    /\ [][(BssidMatchStep /\ associated)
           => /\ ~probe_in_progress'
              /\ associated'
              /\ ~beacon_quirk'
              /\ last_inbound_seen' = ticks]_vars

\* A probe started by the check after more than 5 s of silence made one scan
\* request and ended on a scan that held the associated BSSID.
C7_Witness ==
    /\ radio.ev.kind = "scan_done"
    /\ radio.ev.status = 0
    /\ BssidPass(radio.ev.aps)
    /\ Ev.pc = "idle"
    /\ radio.cyc.scans = 1
    /\ radio.cyc.misses = 0
    /\ ~probe_in_progress /\ associated /\ ~beacon_quirk
    /\ last_inbound_seen = ticks
    /\ ticks > INACTIVE_PACKET_SECONDS

Writers == {RX, TXT, EVT, APT}

\* C2: the writes of one frame reach the serial output next to each other: a
\* frame begins only after the frame before it is complete, every further write
\* of a frame follows a write of the same task, and a task writes only while it
\* holds uart_mtx, so another writer waits until the frame is written whole.
C2_FrameWritesContiguous ==
    /\ \A i \in 1..Len(tx) :
          IF tx[i].first
          THEN i > 1 => tx[i - 1].last
          ELSE i > 1 /\ tx[i - 1].by = tx[i].by /\ ~tx[i - 1].last
    /\ \A t \in Writers : task[t].pc \in {"send_write", "send_give"} => uart_mtx = t
    /\ (tx # <<>> /\ ~tx[Len(tx)].last) => task[tx[Len(tx)].by].pc = "send_write"

\* One task is in the middle of a frame while another waits for the lock, after
\* a frame of a third has been written.
C2_Witness ==
    /\ tx # <<>>
    /\ ~tx[Len(tx)].last
    /\ \E t \in Writers \ {tx[Len(tx)].by} :
          /\ task[t].pc = "send_take"
          /\ \E i \in 1..Len(tx) : tx[i].by \notin {t, tx[Len(tx)].by}

\* The tokens the host has had in force.
HostTokens ==
    {DefaultIntron}
    \cup {host.frames[j].new : j \in {k \in 1..Len(host.frames) :
                                         host.frames[k].type = MSG_INTRON}}

\* C3: no writer observes a half-updated token: the token written in front of
\* every frame is the complete old token or the complete new one.
C3_NoTornToken ==
    \A i \in 1..Len(tx) : tx[i].tok => Expand(tx[i].bytes) \in HostTokens

(***************************************************************************)
(* The egress path end to end                                              *)
(***************************************************************************)
\* The well-formed Packet frames the host has written (declared length <= 2000).
PacketFrames ==
    {n \in 1..Len(host.frames) : /\ host.frames[n].type = MSG_PACKET
                                 /\ host.frames[n].len <= MaxPacketLen}

\* The transmit calls made with buffer b, and the places b takes on its way.
Calls(b) == {j \in 1..Len(radio.sent) : radio.sent[j].buff = b}
InEgressQueue(b) == \E i \in 1..Len(wifi_egress_queue) : wifi_egress_queue[i] = b
BeforeTx(b) == InEgressQueue(b) \/ (task[EGT].buff = b /\ task[EGT].pc = "internal_tx")
AfterTxCall(b) == task[EGT].buff = b /\ task[EGT].pc = "free_buff"

\* What holds of the n-th frame the host wrote, a well-formed Packet frame.
EgressOnce(n) ==
    LET f == host.frames[n]
        b == SendBuff(f.at)
        d == SendData(f.at)
    IN /\ Cardinality(Calls(b)) <= 1
       /\ \A j \in Calls(b) : /\ radio.sent[j].len = f.len
                              /\ radio.sent[j].bytes = Fill(PayloadByte, f.len)
       /\ BeforeTx(b) => Calls(b) = {} /\ {b, d} \subseteq Live(heap)
       /\ AfterTxCall(b) => Calls(b) # {} /\ {b, d} \subseteq Live(heap)
       /\ (Calls(b) # {} /\ ~AfterTxCall(b)) => {b, d} \cap Live(heap) = {}
       /\ (fr.src = n /\ fr.mallocs = 2 /\ Rd.pc = "return")
             => /\ fr.queued = 1
                /\ BeforeTx(b) \/ Calls(b) # {}

Queued(n) == n \in PacketFrames /\ InEgressQueue(SendBuff(host.frames[n].at))
Transmitted(n) ==
    /\ n \in PacketFrames
    /\ Calls(SendBuff(host.frames[n].at)) # {}
    /\ SendBuff(host.frames[n].at) \notin Live(heap)

\* C11: a well-formed Packet frame (declared length L <= 2000) whose two
\* allocations succeed, read while the egress queue has room, is queued; the
\* egress drain task makes exactly one transmit call for it, with length L and
\* exactly the L payload bytes, and releases the buffer once, after the call,
\* whatever the call returned; no buffer is handed to the driver a second time.
C11_OneTransmitThenRelease ==
    /\ [](fault = {} /\ \A n \in PacketFrames : EgressOnce(n))
    /\ \A n \in 1..MaxEgress : Queued(n) ~> Transmitted(n)

\* The scenario's frame (5 payload bytes) was handed to the driver once, the
\* driver refused it, and the buffer has been released.
C11_Witness ==
    \E n \in PacketFrames :
       /\ host.frames[n].len = ScenarioLen
       /\ Transmitted(n)
       /\ task[EGT].pc = "queue_receive"
       /\ \A j \in Calls(SendBuff(host.frames[n].at)) :
             /\ radio.sent[j].err = ESP_FAIL
             /\ radio.sent[j].bytes = Fill(PayloadByte, ScenarioLen)
(***************************************************************************)
(* The event handler on association loss and gain                          *)
(***************************************************************************)
\* What the event handler has written to the serial link since it took the
\* event it is handling (or handled last).
EvtWrites == SubSeq(EvtLog, radio.ev.written + 1, Len(EvtLog))

\* The writes of one complete LinkStatus(up) frame, as tx logs them.
LinkStatusWrites(up) ==
    <<[by |-> EVT, first |-> TRUE, last |-> FALSE, tok |-> TRUE, buff |-> NULL,
       bytes |-> Pack(intron)],
      [by |-> EVT, first |-> FALSE, last |-> FALSE, tok |-> FALSE, buff |-> NULL,
       bytes |-> Pack(<<MSG_LINK>>)],
      [by |-> EVT, first |-> FALSE, last |-> TRUE, tok |-> FALSE, buff |-> NULL,
       bytes |-> Pack(<<up>>)]>>

IsPrefix(a, b) == Len(a) <= Len(b) /\ a = SubSeq(b, 1, Len(a))

\* The step in which event_handler is entered with a station-disconnected event,
\* and the step in which it tests the retry counter.
DisconnectTaken ==
    /\ Ev.pc = "idle"
    /\ Ev'.pc = "send_take"
    /\ Head(radio.evq).kind = "disconnected"
RetryTest == Ev.pc = "disconnected_retry" /\ Ev'.pc # "disconnected_retry"

HandlingDisconnect == radio.ev.kind = "disconnected" /\ Ev.pc # "idle"

\* C12: the handler of a station-disconnected event clears associated on entry;
\* while it writes, what it has written is a part of one LinkStatus(0) frame and
\* no reconnect has been requested; when it tests the retry counter and finds it
\* below CONFIG_ESP_MAXIMUM_RETRY, exactly one complete LinkStatus(0) frame has
\* been written since the event was taken, no reconnect request has been made
\* yet, and the step makes exactly one.
C12_DisconnectReportsThenReconnects ==
    /\ [][DisconnectTaken => ~associated' /\ radio'.connects = radio.connects]_vars
    /\ [](HandlingDisconnect
            => /\ IsPrefix(EvtWrites, LinkStatusWrites(0))
               /\ Ev.pc \in {"send_take", "send_write"} => EvtWrites # LinkStatusWrites(0)
               /\ Ev.pc \in {"send_take", "send_write", "send_give", "disconnected_retry"}
                     => radio.connects = radio.ev.connects
               /\ Ev.pc \in {"retry_load", "retry_store"}
                     => radio.connects = radio.ev.connects + 1)
    /\ [][(RetryTest /\ s_retry_num < CONFIG_ESP_MAXIMUM_RETRY)
           => /\ EvtWrites = LinkStatusWrites(0)
              /\ radio'.connects = radio.connects + 1
              /\ tx' = tx]_vars
    /\ []((radio.ev.kind = "disconnected" /\ Ev.pc = "idle")
            => /\ EvtWrites = LinkStatusWrites(0)
               /\ radio.connects <= radio.ev.connects + 1)

\* A disconnect met with the retry counter below the bound has been handled:
\* LinkStatus(0) is written, one reconnect is requested, the driver is connecting.
C12_Witness ==
    /\ radio.ev.kind = "disconnected"
    /\ Ev.pc = "idle"
    /\ ~associated
    /\ EvtWrites = LinkStatusWrites(0)
    /\ radio.connects = radio.ev.connects + 1
    /\ s_retry_num <= CONFIG_ESP_MAXIMUM_RETRY
    /\ radio.sta = "connecting"
(***************************************************************************)
(* Credentials                                                             *)
(***************************************************************************)
\* The read loop has reconfigured the station from the ClientConfig frame it
\* dispatched on, a frame whose ssid fits its field.
Reconfigured ==
    /\ fr.src # 0
    /\ fr.type = MSG_CLIENTCONFIG
    /\ Src.type = MSG_CLIENTCONFIG
    /\ Src.ssid_len <= SsidFieldLen
    /\ \/ Rd.pc = "return"
       \/ Rd.pc \in {"send_take", "send_write", "send_give"} /\ Rd.ret = "return"

\* C13: a ClientConfig message reconfigures the station with the WPA2-personal
\* threshold if and only if its declared password length is at least 1, and
\* with open authentication when the declared password length is 0.
C13_Wpa2IffPasswordDeclared ==
    Reconfigured => (radio.cfg.authmode = "WPA2_PSK" <=> Src.pass_len >= 1)
(***************************************************************************)
(* Round trip of the Packet frame                                          *)
(***************************************************************************)
\* The read loop is past the type byte of a frame / has finished with it.
Dispatched == fr.type # -1 /\ fr.retAt = -1

TokensRead ==
    {k \in 1..Len(host.frames) : /\ host.frames[k].type = MSG_INTRON
                                 /\ rxcount >= host.frames[k].end}
TokenBeingRead ==
    \E k \in 1..Len(host.frames) : /\ host.frames[k].type = MSG_INTRON
                                    /\ rxcount > host.frames[k].at
                                    /\ rxcount < host.frames[k].end

\* The token of the SetResyncToken frame read last.
NewToken == host.frames[CHOOSE k \in TokensRead : \A j \in TokensRead : j <= k].new

\* The handler has run to its end at least once and is not at work.
TokenReplaced == TokensRead # {} /\ ~TokenBeingRead

\* A step in which a sender starts a frame (writes its token), and a step of
\* wait_for_intron.
TokenWritten == Len(tx') = Len(tx) + 1 /\ tx'[Len(tx')].tok
ScanTaken == Rd.pc = "wait_for_intron" /\ rxcount' = rxcount + 1

\* C15: once read_intron_message has read the eight bytes of a new token,
\* intron[] is the new token; from then on every step of wait_for_intron
\* compares its byte with the new token, and every frame a sender starts
\* begins with the new token: the old token is used by neither direction.
C15_NewTokenUsedFromNextFrame ==
    /\ [](TokenReplaced => intron = NewToken)
    /\ [][(TokenReplaced /\ ScanTaken)
           => Rd'.pos = IF rx[1].b = NewToken[Rd.pos + 1] THEN Rd.pos + 1 ELSE 0]_vars
    /\ [][(TokenReplaced /\ TokenWritten)
           => Expand(tx'[Len(tx')].bytes) = NewToken]_vars

\* After the token was replaced the host asked for the link status under the
\* new token, the read loop found the frame and answered, and another task
\* started a frame as well, all with the new token.
C15_Witness ==
    /\ TokenReplaced
    /\ NewToken # DefaultIntron
    /\ fr.type = MSG_GET_LINK
    /\ fr.src # 0
    /\ Src.tok = NewToken
    /\ \E i, j \in 1..Len(tx) :
          /\ tx[i].tok /\ tx[i].by = RX /\ Expand(tx[i].bytes) = NewToken
          /\ tx[j].tok /\ tx[j].by # RX /\ Expand(tx[j].bytes) = NewToken
(***************************************************************************)
(* What stops the bridge                                                   *)
(***************************************************************************)
\* C16: the bridge stops or restarts only on a StartAccessPoint message with
\* channel 255: whenever it is not running it has restarted, on that message;
\* nothing else (a scan-done event handled while the driver reports no
\* associated access point included) ends in an abort.
C16_OnlyRebootRequestStops ==
    halted # "no"
       => /\ halted = "restart"
          /\ fr.type = MSG_START_SOFTAP
          /\ fr.src # 0
          /\ Src.type = MSG_START_SOFTAP
          /\ Src.channel = RebootChannel
(***************************************************************************)
(* The link-health states                                                  *)
(***************************************************************************)
\* C17: in every reachable state the link-health state is Disassociated,
\* Associated or Associated+Probing: probe_in_progress implies associated, also
\* after a disconnect event or a GetLinkStatus query handled during a probe.
C17_ProbingImpliesAssociated == probe_in_progress => associated

\* The steps in which event_handler sets the flags for a station-connected
\* event, and in which it finishes with that event.
ConnectedTaken ==
    /\ Ev.pc = "idle"
    /\ Ev'.pc = "send_take"
    /\ Head(radio.evq).kind = "connected"
ConnectedDone == Ev.pc = "connected_done" /\ Ev'.pc = "idle"

\* C18: handling a station-connected event, from any state, leaves the
\* non-probing Associated state: the handler sets associated and beacon_quirk,
\* sets last_inbound_seen to the current time and resets s_retry_num to 0, and
\* no probe is in progress afterwards.
C18_ConnectedGivesAssociatedNotProbing ==
    /\ [][ConnectedTaken => /\ associated'
                            /\ beacon_quirk'
                            /\ last_inbound_seen' = ticks
                            /\ ~probe_in_progress']_vars
    /\ [][ConnectedDone => s_retry_num' = 0 /\ ~probe_in_progress']_vars
(***************************************************************************)
(* The reconnect retry counter                                             *)
(***************************************************************************)
\* C19: s_retry_num never exceeds CONFIG_ESP_MAXIMUM_RETRY; between two
\* station-connected events the disconnect handler makes at most that many
\* reconnect requests; a disconnect event met with the counter at the maximum
\* has its LinkStatus(0) written and makes no reconnect request; a connected
\* event resets the counter to 0.
C19_RetryCounterBounded ==
    /\ [](s_retry_num <= CONFIG_ESP_MAXIMUM_RETRY)
    /\ [](radio.since <= CONFIG_ESP_MAXIMUM_RETRY)
    /\ [][(RetryTest /\ s_retry_num >= CONFIG_ESP_MAXIMUM_RETRY)
           => /\ EvtWrites = LinkStatusWrites(0)
              /\ radio'.connects = radio.connects]_vars
    /\ [][ConnectedDone => s_retry_num' = 0]_vars

(***************************************************************************)
(* The periodic check                                                      *)
(***************************************************************************)
\* check_online_status tests the two flags, and then reads the clock.
CheckTest == Rd.pc = "check_online_status" /\ Rd'.pc # "check_online_status"
ElapsedRead == Rd.pc = "check_elapsed" /\ Rd'.pc # "check_elapsed"
ProbeStarts == radio'.probe_tasks = radio.probe_tasks + 1

\* C20: the periodic check starts a probe if and only if associated is true,
\* probe_in_progress is false and elapsed > 5, where elapsed is now minus
\* last_inbound_seen when now >= last_inbound_seen and now itself when the clock
\* has wrapped (now < last_inbound_seen); elapsed of exactly 5 starts none; a
\* check that starts no probe changes no link-health state and issues no scan.
C20_ProbeStartsIffSilentOverFive ==
    /\ [][CheckTest =>
             /\ (Rd'.pc = "check_elapsed") <=> (associated /\ ~probe_in_progress)
             /\ UNCHANGED <<linkVars, radio>>]_vars
    /\ [][ElapsedRead =>
             LET now == ticks
                 elapsed == IF now >= last_inbound_seen
                            THEN now - last_inbound_seen ELSE now
             IN  /\ ProbeStarts <=> elapsed > 5
                 /\ elapsed = 5 => ~ProbeStarts
                 /\ ProbeStarts => probe_in_progress' /\ probe_retry_count' = 0
                 /\ ~ProbeStarts => UNCHANGED <<linkVars, radio>>]_vars

\* The clock has wrapped since the last inbound frame, and the check made at
\* second 6 of the new round has started a probe.
C20_Witness ==
    /\ probe_in_progress
    /\ radio.probe_tasks = 1
    /\ last_inbound_seen = LastSecond - ClockLead
    /\ ticks = INACTIVE_PACKET_SECONDS + 1
    /\ Rd.pc = "read_type"

(***************************************************************************)
(* The second pass over the scan records                                   *)
(***************************************************************************)
\* The scan-done handler takes a successful scan in which no record has the
\* access point's BSSID.
NoBssidMatchStep ==
    /\ Ev.pc = "idle"
    /\ radio.evq # <<>>
    /\ Len(radio'.evq) < Len(radio.evq)
    /\ halted' = "no"
    /\ Head(radio.evq).kind = "scan_done"
    /\ Head(radio.evq).status = 0
    /\ \A i \in 1..Len(Head(radio.evq).aps) : Head(radio.evq).aps[i].bssid # ap_info.bssid

\* Some record of that scan has a non-empty SSID equal, over the 32 bytes of
\* the field, to the non-empty SSID of the associated access point.
SameSsidScanned ==
    \E i \in 1..Len(Head(radio.evq).aps) :
       LET theirs == Head(radio.evq).aps[i].ssid
           ours == ap_info.ssid
       IN  /\ Len(theirs) > 0 /\ Len(ours) > 0
           /\ \A k \in 1..32 : FieldByte(theirs, k) = FieldByte(ours, k)

\* C21: on a successful scan-done event with no BSSID match, a record with the
\* access point's non-empty SSID ends the probe as present (probe_in_progress
\* false, last_inbound_seen = now) and leaves beacon_quirk set when beacon_quirk
\* is set; with beacon_quirk cleared the SSID does not count and the event is
\* a miss: the retry counter goes up and the probe is not ended as present.
C21_SsidMatchCountsWhileQuirkSet ==
    /\ [][(NoBssidMatchStep /\ beacon_quirk /\ SameSsidScanned)
           => /\ ~probe_in_progress'
              /\ last_inbound_seen' = ticks
              /\ beacon_quirk'
              /\ UNCHANGED <<probe_retry_count, tx>>
              /\ radio'.probe_tasks = radio.probe_tasks
              /\ Ev'.pc = "idle"]_vars
    /\ [][(NoBssidMatchStep /\ ~beacon_quirk)
           => /\ UNCHANGED <<probe_in_progress, last_inbound_seen, beacon_quirk>>
              /\ probe_retry_count' = probe_retry_count + 1
              /\ radio'.cyc.misses = radio.cyc.misses + 1
              /\ \/ radio'.probe_tasks = radio.probe_tasks + 1
                 \/ Ev'.pc = "send_take"]_vars

\* A probe has ended as present on the SSID alone, beacon_quirk still set.
C21_Witness ==
    /\ radio.ev.kind = "scan_done"
    /\ radio.ev.aps = <<ApTwin>>
    /\ Ev.pc = "idle"
    /\ ~probe_in_progress
    /\ beacon_quirk
    /\ last_inbound_seen = ticks
    /\ ticks > INACTIVE_PACKET_SECONDS

(***************************************************************************)
(* A Packet frame that finds no memory                                     *)
(***************************************************************************)
\* The read loop takes a step of the drain loop of read_packet_message.
Draining == Rd.pc = "packet_nomem" /\ Rd' # Rd

\* C22: when an allocation for a Packet frame declaring L <= 2000 bytes fails,
\* the read loop consumes exactly the L payload bytes, one at a time and into
\* no buffer, enqueues nothing and leaves nothing allocated, and read_message
\* returns to resynchronise at the byte following the payload.
C22_NoMemoryDrainsPayload ==
    /\ [](fault = {})
    /\ []((Returned /\ fr.type = MSG_PACKET /\ Src.type = MSG_PACKET
              /\ Src.len <= MaxPacketLen /\ fr.nomem)
           => /\ fr.queued = 0
              /\ fr.retAt = Src.end
              /\ fr.retAt = Src.at + 1 + 4 + Src.len
              /\ SendBuff(fr.at) \notin Live(heap)
              /\ SendData(fr.at) \notin Live(heap)
              /\ \A i \in 1..Len(wifi_egress_queue) : wifi_egress_queue[i] # SendBuff(fr.at))
    /\ [][Draining
           => /\ UNCHANGED <<heap, wifi_egress_queue, uart_tx_queue, tx>>
              /\ rxcount' - rxcount \in {0, 1}
              /\ SendBuff(fr.at) \notin Live(heap)
              /\ Rd'.buf = Rd.buf]_vars

\* The payload allocation of a Packet frame of 2000 bytes failed, and the read
\* loop has returned after the payload.
C22_Witness ==
    /\ Returned
    /\ fr.type = MSG_PACKET
    /\ Src.type = MSG_PACKET
    /\ Src.len = MaxPacketLen
    /\ fr.nomem
    /\ fr.mallocs = 1
    /\ rxcount = Src.end

(***************************************************************************)
(* The first frame of uart_tx_thread                                       *)
(***************************************************************************)
\* The frames on the serial output: the write after a frame's token is its type.
TypeWrites == {i \in 2..Len(tx) : tx[i - 1].first}
FrameType(i) == Head(Expand(tx[i].bytes))
FramesOf(t, type) == {i \in TypeWrites : tx[i].by = t /\ FrameType(i) = type}

\* The frame whose type is write i is written whole: FW version and MAC follow.
WholeDeviceInfo(i) ==
    /\ i + 2 <= Len(tx)
    /\ Expand(tx[i + 1].bytes) = LE16(FW_VERSION)
    /\ Expand(tx[i + 2].bytes) = StationMac
    /\ tx[i + 2].last

\* uart_tx_thread has left send_device_info.
Announced == task[TXT].pc \notin {"start", "send_take", "send_write"} \/ task[TXT].ret # "queue_receive"

\* C23: uart_tx_thread writes exactly one DeviceInfo frame, at its start, before
\* any Packet frame: every Packet frame on the serial output comes after a whole
\* DeviceInfo frame written by uart_tx_thread, however early frames were enqueued.
C23_DeviceInfoBeforePackets ==
    /\ Cardinality(FramesOf(TXT, MSG_DEVINFO)) <= 1
    /\ task[TXT].pc \in {"queue_receive", "free_buff"} => Cardinality(FramesOf(TXT, MSG_DEVINFO)) = 1
    /\ \A i \in TypeWrites :
          tx[i].by = TXT => (FrameType(i) = MSG_DEVINFO) = (\A j \in TypeWrites : tx[j].by = TXT => i <= j)
    /\ \A i \in TypeWrites :
          FrameType(i) = MSG_PACKET
             => /\ tx[i].by = TXT
                /\ \E j \in FramesOf(TXT, MSG_DEVINFO) : j + 2 < i /\ WholeDeviceInfo(j)

\* Two received frames were waiting in uart_tx_queue before uart_tx_thread had
\* written its DeviceInfo frame, and the first of them is now on the wire.
C23_Witness ==
    /\ radio.frames = MaxBootFrames
    /\ \E i \in FramesOf(TXT, MSG_PACKET) :
          /\ tx[Len(tx)].last
          /\ \E j \in FramesOf(TXT, MSG_DEVINFO) : j < i
          /\ \A j \in FramesOf(RX, MSG_DEVINFO) : j < i
    /\ FramesOf(EVT, MSG_LINK) # {}
    /\ \A e \in FramesOf(EVT, MSG_LINK), d \in FramesOf(TXT, MSG_DEVINFO) : e < d
    /\ Len(uart_tx_queue) = 1

(***************************************************************************)
(* Frames of a type read_message does not handle                           *)
(***************************************************************************)
HandledTypes == {2, 3, 4, 5, 6}

\* The read loop reads a type byte that is not a handled type, and the step
\* that follows it.
UnknownTypeRead == Rd.pc = "read_type" /\ Rd' # Rd /\ rx[1].b \notin HandledTypes
UnknownTypeReturn == Rd.pc = "return" /\ Rd' # Rd /\ fr.type \notin HandledTypes

\* C24: dispatching on a type byte other than 2, 3, 4, 5, 6 consumes the type
\* byte and no more, writes nothing to serial and leaves the token, both queues
\* and the radio's configuration as they are; read_message returns and the read
\* loop resynchronises from the byte after the type byte.
C24_UnknownTypeIsIgnored ==
    /\ [][UnknownTypeRead
           => /\ Rd'.pc = "return"
              /\ rxcount' = rxcount + 1
              /\ UNCHANGED <<tx, intron, uart_mtx, uart_tx_queue, wifi_egress_queue, heap,
                             radio, linkVars, ap_silent, halted>>]_vars
    /\ [][UnknownTypeReturn
           => /\ Rd'.pc = "wait_for_intron"
              /\ Rd'.pos = 0
              /\ rxcount = fr.at + 1
              /\ UNCHANGED <<rx, rxcount, tx, intron, uart_mtx, uart_tx_queue,
                             wifi_egress_queue, heap, radio, linkVars, ap_silent, halted>>]_vars
    /\ []((Rd.pc # "read_type" /\ fr.type # -1 /\ fr.type \notin HandledTypes)
           => Rd.pc \in {"return", "wait_for_intron", "check_online_status", "check_elapsed"})

\* A frame of type MSG_ALIVE has been dispatched on and read_message has returned
\* right after its type byte.
C24_Witness ==
    /\ Returned
    /\ fr.type = MSG_ALIVE
    /\ Src.type = MSG_ALIVE
    /\ fr.retAt = fr.at + 1
    /\ Rd.pc = "wait_for_intron"

(***************************************************************************)
(* The two queues as FIFOs                                                 *)
(***************************************************************************)
\* The buffers whose Packet frame uart_tx_thread has begun or finished, in the
\* order of its writes, and those handed to the driver, in the order of the calls.
IsPacketType(i) ==
    i >= 2 /\ tx[i - 1].first /\ tx[i].by = TXT /\ tx[i].bytes = Pack(<<MSG_PACKET>>)
PacketWrites == SelectSeq([i \in 1..Len(tx) |-> i], IsPacketType)
IngressWritten == [k \in 1..Len(PacketWrites) |-> tx[PacketWrites[k]].buff]
EgressSent == [k \in 1..Len(radio.sent) |-> radio.sent[k].buff]

\* A buffer a consumer has dequeued and not yet written (handed over).
IngressInHand ==
    IF task[TXT].buff # NULL /\ task[TXT].pc \in {"send_take", "send_write"}
       /\ Len(task[TXT].wq) >= task[TXT].nwq - 1
    THEN <<task[TXT].buff>> ELSE <<>>
EgressInHand == IF task[EGT].pc = "internal_tx" THEN <<task[EGT].buff>> ELSE <<>>

\* The frame whose type is write i is on the wire whole.
WrittenWhole(i) == i + 2 <= Len(tx) /\ tx[i + 2].last /\ tx[i + 2].buff = tx[i].buff

NoRepeats(q) == \A i, j \in 1..Len(q) : q[i] = q[j] => i = j

\* All that was accepted has been written, or transmitted, and released.
Drained ==
    /\ uart_tx_queue = <<>>
    /\ wifi_egress_queue = <<>>
    /\ IngressWritten = radio.accepted
    /\ tx # <<>> => tx[Len(tx)].last
    /\ EgressSent = fr.accepted
    /\ task[TXT].pc = "queue_receive"
    /\ task[EGT].pc = "queue_receive"

\* C25: each queue holds at most QueueLength buffers; the buffers accepted into
\* the ingress queue are, in the order of their acceptance and each once, those
\* written to serial as Packet frames, then the one in uart_tx_thread's hands,
\* then those waiting; likewise for the egress queue and the driver's transmit
\* calls; and with the consumers scheduled fairly all that was accepted is in
\* the end written, or transmitted.
C25_QueuesAreBoundedFifos ==
    /\ [](Len(uart_tx_queue) <= QueueLength /\ Len(wifi_egress_queue) <= QueueLength)
    /\ [](radio.accepted = IngressWritten \o IngressInHand \o uart_tx_queue)
    /\ [](fr.accepted = EgressSent \o EgressInHand \o wifi_egress_queue)
    /\ [](NoRepeats(radio.accepted) /\ NoRepeats(fr.accepted))
    /\ [](\A i \in 2..(Len(tx) - 3) : IsPacketType(i) => WrittenWhole(i))
    /\ <>[]Drained

\* Both kinds of burst have filled a queue, a further buffer was refused, and
\* the consumer has since written (transmitted) all QueueLength + 1 accepted.
C25_Witness ==
    /\ Drained
    /\ \/ Len(radio.accepted) > QueueLength /\ radio.frames > Len(radio.accepted)
       \/ Len(fr.accepted) > QueueLength /\ host.sent > Len(fr.accepted)

(***************************************************************************)
(* The scans of one probe cycle                                            *)
(***************************************************************************)
\* The scan requests of the probe cycle begun last: those probe_task has made
\* and those of probe tasks created and yet to run.
CycleScans == radio.cyc.scans + radio.probe_tasks

\* C26: within one probe cycle at most probe_max_reties + 1 = 4 scans are
\* requested, and probe_retry_count never exceeds probe_max_reties + 1; the
\* counter is the number of scans of the cycle that have missed.
C26_ProbeCycleScansBounded ==
    /\ CycleScans <= probe_max_reties + 1
    /\ CycleScans <= 4
    /\ probe_retry_count <= probe_max_reties + 1
    /\ probe_retry_count = radio.cyc.misses

\* A probe cycle has used all its scans: four were requested, four missed, the
\* counter stands at 4 and the probe is over.
C26_Witness ==
    /\ CycleScans = probe_max_reties + 1
    /\ probe_retry_count = probe_max_reties + 1
    /\ ~probe_in_progress
    /\ radio.cyc.down
    /\ Running

(***************************************************************************)
(* Scans outstanding                                                       *)
(***************************************************************************)
\* The scan-done events posted and not yet handled to the end.
IsScanDone(e) == e.kind = "scan_done"
ScansReported == Len(SelectSeq(radio.evq, IsScanDone))

\* probe_task calls esp_wifi_scan_start and the driver accepts.
ScanRequest == radio'.scans = radio.scans + 1

\* A probe task is created: by the periodic check, or by the scan-done handler.
ProbeRun == radio'.probe_tasks = radio.probe_tasks + 1

\* C28: at most one scan request is outstanding: of probe tasks yet to request
\* their scan, scans under way and scan-done events waiting for the handler
\* there is at most one; a scan is requested only with none under way or
\* reported; and a probe task is created only by the periodic check with
\* probe_in_progress false, which it sets, or by the scan-done handler taking
\* the event of the previous scan.
C28_OneScanOutstanding ==
    /\ [](Running => radio.probe_tasks + radio.scans + ScansReported <= 1)
    /\ [](radio.scans <= 1)
    /\ [][ScanRequest => radio.scans = 0 /\ ScansReported = 0 /\ radio.probe_tasks = 1]_vars
    /\ [][ProbeRun
           => \/ /\ Rd.pc = "check_elapsed"
                 /\ ~probe_in_progress /\ probe_in_progress'
                 /\ radio.scans = 0 /\ ScansReported = 0
              \/ /\ Ev.pc = "idle"
                 /\ Head(radio.evq).kind = "scan_done"
                 /\ radio'.evq = Tail(radio.evq)
                 /\ probe_in_progress
                 /\ radio.scans = 0 /\ ScansReported = 1]_vars

\* The scan-done handler has asked for a second scan, which is under way, and
\* the read loop has since made a check that left the probe alone.
C28_Witness ==
    /\ radio.scans = 1
    /\ radio.probe_tasks = 0
    /\ radio.cyc.misses >= 1
    /\ probe_in_progress
    /\ Rd.pc = "read_type"
    /\ host.sent = MaxChecks
    /\ RxLen(rx) = 1

\* The LinkStatus(down) frames the event handler has written.
DownReports ==
    {i \in FramesOf(EVT, MSG_LINK) : i + 1 <= Len(tx) /\ Expand(tx[i + 1].bytes) = <<0>>}

\* The step that ends a failed probe cycle, and the two steps of the periodic
\* check that follows one.
ProbeFails == Ev.pc = "probe_failed" /\ Ev' # Ev
CheckAfterDown == Rd.pc = "check_online_status" /\ Rd' # Rd /\ radio.cyc.down
ElapsedAfterDown == Rd.pc = "check_elapsed" /\ Rd' # Rd /\ radio.cyc.down

\* No inbound frame and no connection event since the start of the run.
RadioSilent == radio.events = 0 /\ radio.frames = 0

\* C27: the end of a failed probe cycle clears probe_in_progress and leaves
\* associated and last_inbound_seen as they were; while the radio stays silent
\* and the clock has not wrapped, the next periodic check starts a new cycle.
C27_FailedProbeCyclesRepeat ==
    /\ [][ProbeFails
           => /\ ~probe_in_progress'
              /\ radio'.cyc.down
              /\ associated' = associated
              /\ last_inbound_seen' = last_inbound_seen]_vars
    /\ [](radio.cyc.down => ~probe_in_progress /\ radio.scans = 0 /\ radio.probe_tasks = 0)
    /\ [](radio.cyc.down /\ RadioSilent
            => associated /\ last_inbound_seen = radio.cyc.last)
    /\ [][CheckAfterDown /\ associated => Rd'.pc = "check_elapsed"]_vars
    /\ [][ElapsedAfterDown /\ last_inbound_seen = radio.cyc.last /\ ticks >= last_inbound_seen
           => /\ probe_in_progress'
              /\ probe_retry_count' = 0
              /\ radio'.probe_tasks = 1
              /\ ~radio'.cyc.down]_vars

\* Every periodic check that follows a failed cycle, with last_inbound_seen as
\* the cycle left it, starts a new cycle, whatever the clock reads.
C27_RepeatOnEveryCheck ==
    [][ElapsedAfterDown /\ last_inbound_seen = radio.cyc.last
       => probe_in_progress' /\ radio'.probe_tasks = 1]_vars

\* Two probe cycles have failed one after the other on a silent radio.
C27_Witness ==
    /\ Cardinality(DownReports) = 2
    /\ RadioSilent
    /\ associated
    /\ ~probe_in_progress
    /\ Running

\* C29: whenever probing becomes true it eventually becomes false again.
C29_ProbeCycleTerminates == probe_in_progress ~> ~probe_in_progress

\* The same, for the cycles during which the station keeps its access point.
C29_TerminatesWhileConnected ==
    (probe_in_progress /\ radio.events = 0) ~> (~probe_in_progress \/ radio.events > 0)

\* A task is inside the locked part of a send_* function, or waits to enter it.
Writing(t) == task[t].pc \in {"send_write", "send_give"}
WaitsForLock(t) == task[t].pc = "send_take"

\* C30: the holder of uart_mtx is always a task between its take and its give,
\* where it only writes; every holder gives the lock back, and every task that
\* waits for the lock acquires it.
C30_LockIsReleasedAndAcquired ==
    /\ [](\A t \in Writers : uart_mtx = t <=> Writing(t))
    /\ [][\A t \in Writers : Writing(t) /\ task'[t] # task[t]
              => /\ Writing(t)' \/ (uart_mtx' = "none" /\ task'[t].pc = task[t].ret)
                 /\ rx' = rx
                 /\ uart_tx_queue' = uart_tx_queue
                 /\ wifi_egress_queue' = wifi_egress_queue]_vars
    /\ \A t \in Writers : (uart_mtx = t) ~> (uart_mtx # t \/ ~Running)
    /\ \A t \in Writers : WaitsForLock(t) ~> (uart_mtx = t \/ ~Running)

\* The event handler waits for the lock while another task writes a frame.
C30_Witness ==
    /\ WaitsForLock(EVT)
    /\ WaitsForLock(RX)
    /\ uart_mtx = TXT
    /\ Running
====
